---- MODULE Spec2Model ----
(***************************************************************************)
(* A model of the AutoBit backend: the server lifecycle handlers           *)
(* (app/routers/servers.py) over the container runtime adapter             *)
(* (app/docker_manager.py), the usage sampler                              *)
(* (app/workers/usage_sampler.py), invoice generation and payment          *)
(* (app/routers/billing.py) and the usage aggregation query                *)
(* (app/routers/usage.py).                                                 *)
(*                                                                         *)
(* Stores are MongoDB collections: each single operation on them is        *)
(* atomic, a handler's sequence of operations is not.  The sampler is a    *)
(* process of its own, so its steps interleave with the API handlers.      *)
(* Floating point quantities are modelled as exact rationals over integer  *)
(* inputs; timestamps are integers.                                        *)
(***************************************************************************)
EXTENDS Integers, Sequences, FiniteSets, Bags, TLC

\* ------------------------------------------------------------------ bounds
MaxServers == 2      \* server records ever created (fresh uuids)
MaxCtrs == 3         \* runtime containers ever created (fresh container ids)
MaxTime == 3         \* readings of the clock (datetime.utcnow) in one behaviour

Users == {1, 2}
\* The users that create servers.  Users are interchangeable and no handler
\* relates the servers of two users, so user 1 stands for the owner and user 2
\* for any other authenticated user.
Owners == {1}
ServerIds == 1..MaxServers

\* Request bodies.  A ServerCreate carries the four resource fields; the
\* valid ones are strictly positive, the others have one field at 0 or below.
ValidShapes ==
    { [cpu_limit |-> 1, cores |-> 1, ram_gib |-> 1, disk_gib |-> 1],
      [cpu_limit |-> 2, cores |-> 2, ram_gib |-> 2, disk_gib |-> 2] }
InvalidShapes ==
    { [cpu_limit |-> 0, cores |-> 1, ram_gib |-> 1, disk_gib |-> 1],
      [cpu_limit |-> 1, cores |-> 0, ram_gib |-> 1, disk_gib |-> 1],
      [cpu_limit |-> 1, cores |-> 1, ram_gib |-> -1, disk_gib |-> 1],
      [cpu_limit |-> 1, cores |-> 1, ram_gib |-> 1, disk_gib |-> 0] }
CreateInputs == ValidShapes \cup InvalidShapes

ResourceFields == {"cpu_limit", "cores", "ram_gib", "disk_gib"}

\* cpu_limit, ram_gib and disk_gib are floats, cores is an int.  A float of a
\* JSON body may be NaN; NaN is this value, apart from the numbers bodies use.
NaN == -1000
\* Python's v <= 0: False when v is NaN
LeqZero(v) == v # NaN /\ v <= 0
\* Bodies with NaN in a float field
NaNShapes ==
    { [cpu_limit |-> 1, cores |-> 1, ram_gib |-> 1, disk_gib |-> NaN],
      [cpu_limit |-> NaN, cores |-> 1, ram_gib |-> 1, disk_gib |-> 1] }
NaNUpdates == { {<<"disk_gib", NaN>>}, {<<"ram_gib", NaN>>} }

\* ServerUpdate bodies after dict(exclude_unset=True): the fields supplied.
\* Each is the set of <<field, value>> pairs of the body.
UpdateInputs ==
    { {},
      {<<"cores", 2>>},
      {<<"ram_gib", 2>>},
      {<<"name", 1>>},
      {<<"cores", 0>>},
      {<<"cores", 2>>, <<"ram_gib", 0>>} }

\* ------------------------------------------------------------------- state
VARIABLES
    available,    \* DockerManager.available: real runtime (TRUE) or mock mode
    servers,      \* db.servers: server id -> document
    containers,   \* the runtime's containers: container number -> [name, state]
    nextId,       \* server ids handed out so far
    nextCtr,      \* container ids handed out so far
    usage_samples,\* db.usage_samples: a set of documents
    events,       \* the subjects published on the bus, in order
    now,          \* the clock: the last value datetime.utcnow() returned
    resp,         \* the response of the last API request that completed
    upd,          \* the update_server request in flight, or Idle
    tick,         \* the sampler's position in its loop
    invoices,     \* db.invoices: invoice id -> document
    transactions, \* db.transactions: a set of documents
    nextInv,      \* invoice ids handed out so far
    nextTxn,      \* transaction ids handed out so far
    reqs,         \* the billing requests in flight: a bag of requests
    calc,         \* an invoice computation: its inputs and its result
    query         \* a usage query: its inputs and its rows

\* Runtime handles (container_id).  None is the absent handle.
NoHandle == [kind |-> "none", n |-> 0]
MockHandle(sid) == [kind |-> "mock", n |-> sid]
CtrHandle(n) == [kind |-> "ctr", n |-> n]

Idle == [pc |-> "idle"]
\* A response: the operation, the HTTP status, the server or invoice it was
\* about, the adapter operations the handler called on the way, the detail of
\* the HTTPException where the handler has several of one status, and the
\* documents a read returns.
NoResp ==
    [op |-> "none", code |-> 0, id |-> 0, calls |-> <<>>, detail |-> "", data |-> {}]
Resp(op, code, id, calls) ==
    [op |-> op, code |-> code, id |-> id, calls |-> calls, detail |-> "", data |-> {}]
Reject(op, code, id, detail) ==
    [op |-> op, code |-> code, id |-> id, calls |-> <<>>, detail |-> detail, data |-> {}]
Answer(op, id, data) ==
    [op |-> op, code |-> 200, id |-> id, calls |-> <<>>, detail |-> "", data |-> data]

\* ------------------------------------------------------- runtime adapter
\* Every adapter operation takes the runtime's containers and returns its
\* result with the containers after it.  fault is the runtime (daemon, image
\* registry) failing the call: any docker call may raise.

\* A faulty variant of create_container, which answers no container id: the
\* properties of creation must tell it from the real one.
CreateContainerNoHandle(ctrs, next, server, sid, fault) ==
    [raised |-> FALSE, handle |-> NoHandle, ctrs |-> ctrs, next |-> next]

\* DockerManager.create_container.  int(server.cpu_limit * 100000) and
\* int(server.ram_gib * 1024 * 1024 * 1024) raise on NaN; disk_gib is not used.
CreateContainer(ctrs, next, server, sid, fault) ==
    IF ~available
    THEN [raised |-> FALSE, handle |-> MockHandle(sid), ctrs |-> ctrs, next |-> next]
    ELSE IF \/ fault
            \/ server.cpu_limit = NaN \/ server.ram_gib = NaN
            \/ \E n \in DOMAIN ctrs : ctrs[n].name = sid
         THEN [raised |-> TRUE, handle |-> NoHandle, ctrs |-> ctrs, next |-> next]
         ELSE [raised |-> FALSE, handle |-> CtrHandle(next + 1),
               ctrs |-> [n \in DOMAIN ctrs \cup {next + 1} |->
                           IF n = next + 1
                           THEN [name |-> sid, state |-> "created",
                                 cpu_quota |-> server.cpu_limit * 100000,
                                 mem_gib |-> server.ram_gib]
                           ELSE ctrs[n]],
               next |-> next + 1]

Present(ctrs, h) == h.kind = "ctr" /\ h.n \in DOMAIN ctrs

\* Faulty variants of start_container and stop_container, which answer True
\* whatever the runtime did
StartContainerAlwaysTrue(ctrs, h, fault) == [ok |-> TRUE, ctrs |-> ctrs]
StopContainerAlwaysTrue(ctrs, h, fault) == [ok |-> TRUE, ctrs |-> ctrs]

\* DockerManager.start_container
StartContainer(ctrs, h, fault) ==
    IF ~available THEN [ok |-> TRUE, ctrs |-> ctrs]
    ELSE IF fault \/ ~Present(ctrs, h) THEN [ok |-> FALSE, ctrs |-> ctrs]
    ELSE [ok |-> TRUE, ctrs |-> [ctrs EXCEPT ![h.n].state = "running"]]

\* DockerManager.stop_container
StopContainer(ctrs, h, fault) ==
    IF ~available THEN [ok |-> TRUE, ctrs |-> ctrs]
    ELSE IF fault \/ ~Present(ctrs, h) THEN [ok |-> FALSE, ctrs |-> ctrs]
    ELSE [ok |-> TRUE,
          ctrs |-> [ctrs EXCEPT ![h.n].state =
                       IF @ = "running" THEN "exited" ELSE @]]

\* DockerManager.delete_container
DeleteContainer(ctrs, h, fault) ==
    IF ~available THEN [ok |-> TRUE, ctrs |-> ctrs]
    ELSE IF fault \/ ~Present(ctrs, h) THEN [ok |-> FALSE, ctrs |-> ctrs]
    ELSE [ok |-> TRUE, ctrs |-> [n \in DOMAIN ctrs \ {h.n} |-> ctrs[n]]]

\* DockerManager.is_container_running: self.client.containers.get raises when
\* the container is gone, and also when self.client is None (mock mode); every
\* exception is answered False.
IsContainerRunning(ctrs, h, fault) ==
    IF ~available THEN FALSE
    ELSE ~fault /\ Present(ctrs, h) /\ ctrs[h.n].state = "running"

\* What the runtime reports for a live container (cpu_percent, memory_mb,
\* disk_gb after the adapter's conversions).
StatsInputs == { [cpu |-> 50, mem |-> 512, disk |-> 1] }

\* A faulty variant of get_container_stats, which answers stats of zeros
\* when the runtime call raised
GetContainerStatsZeros(ctrs, h, fault, reading) ==
    IF ~available
    THEN [keys |-> {"cpu_percent", "memory_usage_mb", "disk_usage_gb"},
          cpu |-> 25, mem |-> 512, disk |-> 1]
    ELSE IF fault \/ ~Present(ctrs, h)
         THEN [keys |-> {"cpu_percent", "memory_mb", "disk_gb"},
               cpu |-> 0, mem |-> 0, disk |-> 0]
         ELSE [keys |-> {"cpu_percent", "memory_mb", "disk_gb"},
               cpu |-> reading.cpu, mem |-> reading.mem, disk |-> reading.disk]

\* DockerManager.get_container_stats: the mock answer carries the keys
\* cpu_percent, memory_usage_mb, disk_usage_gb; the real one cpu_percent,
\* memory_mb, disk_gb; None when the runtime call raises.
GetContainerStats(ctrs, h, fault, reading) ==
    IF ~available
    THEN [keys |-> {"cpu_percent", "memory_usage_mb", "disk_usage_gb"},
          cpu |-> 25, mem |-> 512, disk |-> 1]
    ELSE IF fault \/ ~Present(ctrs, h)
         THEN [keys |-> {}, cpu |-> 0, mem |-> 0, disk |-> 0]
         ELSE [keys |-> {"cpu_percent", "memory_mb", "disk_gb"},
               cpu |-> reading.cpu, mem |-> reading.mem, disk |-> reading.disk]

\* DockerManager.update_container_resources: stop, delete, create, start.  The
\* results of stop, delete and start are dropped; only an exception (create is
\* the one call that raises) makes it answer False.  The new container id
\* stays local to the method.
UpdateContainerResources(ctrs, next, h, server, fStop, fDelete, fCreate, fStart) ==
    LET s1 == StopContainer(ctrs, h, fStop)
        s2 == DeleteContainer(s1.ctrs, h, fDelete)
        s3 == CreateContainer(s2.ctrs, next, server, server.id, fCreate)
        s4 == StartContainer(s3.ctrs, s3.handle, fStart)
    IN  IF s3.raised
        THEN [ok |-> FALSE, ctrs |-> s3.ctrs, next |-> s3.next, new |-> NoHandle]
        ELSE [ok |-> TRUE, ctrs |-> s4.ctrs, next |-> s3.next, new |-> s3.handle]

\* ------------------------------------------------------------- the store
\* A faulty variant of the look-up, which leaves the caller out of the filter
FoundOfAnyUser(u, sid) == sid \in DOMAIN servers
\* db.servers.find_one({"id": sid, "user_id": u}): the document or none.
Found(u, sid) == sid \in DOMAIN servers /\ servers[sid].user_id = u

\* A faulty variant of delete_one, which deletes nothing
RemoveNone(f, k) == f
\* delete_one of the document with key k
Remove(f, k) == [x \in DOMAIN f \ {k} |-> f[x]]
\* A faulty variant of insert_one, which overwrites the documents it finds
PutOverAll(f, k, v) == [x \in DOMAIN f \cup {k} |-> v]
\* A faulty variant of insert_one, which stores nothing
PutNothing(f, k, v) == f
\* insert_one of the document v with key k
Put(f, k, v) == [x \in DOMAIN f \cup {k} |-> IF x = k THEN v ELSE f[x]]

Event(subject, id) == [subject |-> subject, id |-> id]

\* A faulty variant of publish_event, which raises when the broker does not
\* take the event
PublishEventRaising(evts, e, sent) ==
    [raised |-> ~sent, events |-> IF sent THEN Append(evts, e) ELSE evts]
\* NATSClient.publish_event: connect when needed, publish; every exception is
\* logged and swallowed.  sent tells whether the broker took the event.
PublishEvent(evts, e, sent) ==
    [raised |-> FALSE, events |-> IF sent THEN Append(evts, e) ELSE evts]

\* A step of the lifecycle model: the last response was delivered, and the
\* adapter's mode and the billing store stay as they are.
LifecycleStep ==
    /\ resp = NoResp
    /\ UNCHANGED <<available, invoices, transactions, nextInv, nextTxn, reqs,
                   calc, query>>

\* ------------------------------------------------- server lifecycle (API)
\* A faulty variant of create_server's check, which lets every body through
PositiveAlways(d) == TRUE
\* create_server's check of the four resource values
Positive(d) ==
    ~(LeqZero(d.cpu_limit) \/ LeqZero(d.cores) \/ LeqZero(d.ram_gib) \/ LeqZero(d.disk_gib))

\* POST /servers; sent tells whether the broker takes the event
CreateServerPub(u, d, sent) ==
    /\ LifecycleStep
    /\ IF ~Positive(d)
       THEN /\ resp' = Reject("create", 400, 0, "All resource values must be positive")
            /\ UNCHANGED <<servers, containers, nextId, nextCtr, usage_samples,
                           events, now, upd, tick>>
       ELSE /\ nextId < MaxServers
            /\ now < MaxTime
            /\ available => nextCtr < MaxCtrs
            /\ \E fault \in BOOLEAN :
                 LET sid == nextId + 1
                     server == [id |-> sid, user_id |-> u, name |-> 0,
                                cpu_limit |-> d.cpu_limit, cores |-> d.cores,
                                ram_gib |-> d.ram_gib, disk_gib |-> d.disk_gib,
                                status |-> "created", container_id |-> NoHandle,
                                created_at |-> now + 1, updated_at |-> now + 1]
                     r == CreateContainer(containers, nextCtr, server, sid, fault)
                 IN  IF r.raised
                     THEN /\ resp' = Resp("create", 500, 0, <<"create">>)
                          /\ UNCHANGED <<servers, containers, nextId, nextCtr,
                                         events, now>>
                     ELSE /\ servers' = Put(servers, sid,
                                            [server EXCEPT !.container_id = r.handle])
                          /\ containers' = r.ctrs
                          /\ nextCtr' = r.next
                          /\ nextId' = sid
                          /\ now' = now + 1
                          /\ LET p == PublishEvent(events, Event("server.created", sid), sent)
                             IN  /\ events' = p.events
                                 /\ resp' = Resp("create", IF p.raised THEN 500 ELSE 200,
                                                  sid, <<"create">>)
            /\ UNCHANGED <<usage_samples, upd, tick>>

CreateServer(u, d) == CreateServerPub(u, d, TRUE)

\* A faulty variant of start_server's check, which lets every start through
AlreadyRunningNever(server) == FALSE
\* start_server's check of the status it read
AlreadyRunning(server) == server.status = "running"

\* POST /servers/{id}/start
StartServerPub(u, sid, sent) ==
    /\ LifecycleStep
    /\ UNCHANGED <<nextId, nextCtr, usage_samples, upd, tick>>
    /\ IF ~Found(u, sid)
       THEN /\ resp' = Resp("start", 404, sid, <<>>)
            /\ UNCHANGED <<servers, containers, events, now>>
       ELSE IF AlreadyRunning(servers[sid])
       THEN /\ resp' = Reject("start", 400, sid, "Server is already running")
            /\ UNCHANGED <<servers, containers, events, now>>
       ELSE IF servers[sid].container_id = NoHandle
       THEN /\ resp' = Reject("start", 400, sid, "Server container not found")
            /\ UNCHANGED <<servers, containers, events, now>>
       ELSE \E fault \in BOOLEAN :
              LET r == StartContainer(containers, servers[sid].container_id, fault)
              IN  /\ containers' = r.ctrs
                  /\ IF r.ok
                     THEN /\ now < MaxTime
                          /\ now' = now + 1
                          /\ servers' = [servers EXCEPT ![sid].status = "running",
                                                        ![sid].updated_at = now + 1]
                          /\ LET p == PublishEvent(events, Event("server.started", sid), sent)
                             IN  /\ events' = p.events
                                 /\ resp' = Resp("start", IF p.raised THEN 500 ELSE 200,
                                                  sid, <<"start">>)
                     ELSE /\ resp' = Resp("start", 500, sid, <<"start">>)
                          /\ UNCHANGED <<servers, events, now>>

StartServer(u, sid) == StartServerPub(u, sid, TRUE)

\* GET /servers: the documents of the caller
ListServers(u) ==
    /\ LifecycleStep
    /\ resp' = Answer("list", 0, { servers[sid] : sid \in { x \in DOMAIN servers :
                                                             servers[x].user_id = u } })
    /\ UNCHANGED <<servers, containers, nextId, nextCtr, usage_samples, events,
                   now, upd, tick>>

\* GET /servers/{id}
GetServer(u, sid) ==
    /\ LifecycleStep
    /\ resp' = IF ~Found(u, sid)
               THEN Reject("get", 404, sid, "Server not found")
               ELSE Answer("get", sid, {servers[sid]})
    /\ UNCHANGED <<servers, containers, nextId, nextCtr, usage_samples, events,
                   now, upd, tick>>

\* POST /servers/{id}/stop
StopServerPub(u, sid, sent) ==
    /\ LifecycleStep
    /\ UNCHANGED <<nextId, nextCtr, usage_samples, upd, tick>>
    /\ IF ~Found(u, sid)
       THEN /\ resp' = Resp("stop", 404, sid, <<>>)
            /\ UNCHANGED <<servers, containers, events, now>>
       ELSE IF servers[sid].status = "stopped"
       THEN /\ resp' = Resp("stop", 400, sid, <<>>)
            /\ UNCHANGED <<servers, containers, events, now>>
       ELSE IF servers[sid].container_id = NoHandle
       THEN /\ resp' = Resp("stop", 400, sid, <<>>)
            /\ UNCHANGED <<servers, containers, events, now>>
       ELSE \E fault \in BOOLEAN :
              LET r == StopContainer(containers, servers[sid].container_id, fault)
              IN  /\ containers' = r.ctrs
                  /\ IF r.ok
                     THEN /\ now < MaxTime
                          /\ now' = now + 1
                          /\ servers' = [servers EXCEPT ![sid].status = "stopped",
                                                        ![sid].updated_at = now + 1]
                          /\ LET p == PublishEvent(events, Event("server.stopped", sid), sent)
                             IN  /\ events' = p.events
                                 /\ resp' = Resp("stop", IF p.raised THEN 500 ELSE 200,
                                                  sid, <<"stop">>)
                     ELSE /\ resp' = Resp("stop", 500, sid, <<"stop">>)
                          /\ UNCHANGED <<servers, events, now>>

StopServer(u, sid) == StopServerPub(u, sid, TRUE)

\* DELETE /servers/{id}
DeleteServer(u, sid) ==
    /\ LifecycleStep
    /\ UNCHANGED <<nextId, nextCtr, usage_samples, events, now, upd, tick>>
    /\ IF ~Found(u, sid)
       THEN /\ resp' = Resp("delete", 404, sid, <<>>)
            /\ UNCHANGED <<servers, containers>>
       ELSE /\ IF servers[sid].container_id # NoHandle
               THEN \E fault \in BOOLEAN :
                      containers' =
                        DeleteContainer(containers, servers[sid].container_id, fault).ctrs
               ELSE UNCHANGED containers
            /\ servers' = Remove(servers, sid)
            /\ resp' = Resp("delete", 200, sid,
                             IF servers[sid].container_id # NoHandle
                             THEN <<"delete">> ELSE <<>>)

\* PATCH /servers/{id}.  The handler reads the document, applies the body to
\* its copy, replaces the container of a running server, and writes the whole
\* copy back: three steps, other requests and the sampler run in between.
Supplied(data) == { p[1] : p \in data }
ValueOf(data, f) == (CHOOSE p \in data : p[1] = f)[2]
Field(data, f, old) == IF f \in Supplied(data) THEN ValueOf(data, f) ELSE old

\* for field, value in update_data.items(): setattr(server, field, value)
Apply(server, data) ==
    [server EXCEPT !.name = Field(data, "name", @),
                   !.cpu_limit = Field(data, "cpu_limit", @),
                   !.cores = Field(data, "cores", @),
                   !.ram_gib = Field(data, "ram_gib", @),
                   !.disk_gib = Field(data, "disk_gib", @)]

UpdateRead(u, sid, data) ==
    /\ LifecycleStep
    /\ upd = Idle
    /\ UNCHANGED <<servers, containers, nextId, nextCtr, usage_samples, events, tick>>
    /\ IF ~Found(u, sid)
       THEN /\ resp' = Resp("update", 404, sid, <<>>)
            /\ UNCHANGED <<upd, now>>
       ELSE IF data = {}
       THEN /\ resp' = Reject("update", 400, sid, "No fields to update")
            /\ UNCHANGED <<upd, now>>
       ELSE IF \E f \in ResourceFields : f \in Supplied(data) /\ LeqZero(ValueOf(data, f))
       THEN /\ resp' = Reject("update", 400, sid, "must be positive")
            /\ UNCHANGED <<upd, now>>
       ELSE /\ now < MaxTime
            /\ now' = now + 1
            /\ LET server == [Apply(servers[sid], data) EXCEPT !.updated_at = now + 1]
                   replace == /\ server.status = "running"
                              /\ server.container_id # NoHandle
                              /\ Supplied(data) \cap ResourceFields # {}
               IN  /\ (replace /\ available) => nextCtr < MaxCtrs
                   /\ upd' = [pc |-> IF replace THEN "replace" ELSE "write",
                              sid |-> sid, server |-> server,
                              calls |-> <<>>, created |-> NoHandle]
            /\ UNCHANGED resp

\* upd.created is the container id update_container_resources created: the
\* method keeps it to itself, the handler never holds it.
ReplaceCalls == <<"stop", "delete", "create", "start">>

UpdateReplace ==
    /\ LifecycleStep
    /\ upd # Idle
    /\ upd.pc = "replace"
    /\ available => nextCtr < MaxCtrs
    /\ UNCHANGED <<servers, nextId, usage_samples, events, now, tick>>
    /\ \E fStop, fDelete, fCreate, fStart \in BOOLEAN :
         LET r == UpdateContainerResources(containers, nextCtr,
                      upd.server.container_id, upd.server,
                      fStop, fDelete, fCreate, fStart)
         IN  /\ containers' = r.ctrs
             /\ nextCtr' = r.next
             /\ IF r.ok
                THEN /\ upd' = [upd EXCEPT !.pc = "write",
                                            !.calls = ReplaceCalls,
                                            !.created = r.new]
                     /\ UNCHANGED resp
                ELSE /\ upd' = Idle
                     /\ resp' = Resp("update", 500, upd.sid,
                                      <<"stop", "delete", "create">>)

\* db.servers.update_one({"id": server_id}, {"$set": server.dict()})
UpdateWrite ==
    /\ LifecycleStep
    /\ upd # Idle
    /\ upd.pc = "write"
    /\ servers' = IF upd.sid \in DOMAIN servers
                  THEN [servers EXCEPT ![upd.sid] = upd.server]
                  ELSE servers
    /\ upd' = Idle
    /\ resp' = Resp("update", 200, upd.sid, upd.calls)
    /\ UNCHANGED <<containers, nextId, nextCtr, usage_samples, events, now, tick>>

\* ---------------------------------------------------------- usage sampler
Sleeping == [pc |-> "sleep", tasks |-> <<>>]
NoSample == [server_id |-> 0, ts |-> 0, cpu_pct |-> 0, ram_mib |-> 0, disk_gib |-> 0]

\* usage_sampling_loop: read the servers with status running and a handle,
\* and start one sample_server_usage task for each.
SamplerRead ==
    /\ LifecycleStep
    /\ tick.pc = "sleep"
    /\ LET batch == { sid \in DOMAIN servers :
                        /\ servers[sid].status = "running"
                        /\ servers[sid].container_id # NoHandle }
       IN  tick' = IF batch = {}
                   THEN Sleeping
                   ELSE [pc |-> "run",
                         tasks |-> [sid \in batch |->
                                      [pc |-> "probe",
                                       container_id |-> servers[sid].container_id,
                                       is_running |-> "unset",
                                       sample |-> NoSample]]]
    /\ UNCHANGED <<servers, containers, nextId, nextCtr, usage_samples, events,
                   now, resp, upd>>

\* A faulty variant of the sampler's delete, which keeps the document
RetireOrphanKeeps(svrs, sid) == svrs
\* await db.servers.delete_one({"id": server_id}) of an orphaned server
RetireOrphan(svrs, sid) == Remove(svrs, sid)

\* sample_server_usage up to its first write: the liveness probe, then either
\* the delete of the server document or the stats and the sample built of them.
SamplerProbe(sid) ==
    /\ LifecycleStep
    /\ tick.pc = "run"
    /\ sid \in DOMAIN tick.tasks
    /\ tick.tasks[sid].pc = "probe"
    /\ UNCHANGED <<containers, nextId, nextCtr, usage_samples, events, resp, upd>>
    /\ \E fault \in BOOLEAN :
         IF ~IsContainerRunning(containers, tick.tasks[sid].container_id, fault)
         THEN /\ servers' = RetireOrphan(servers, sid)
              /\ tick' = [tick EXCEPT !.tasks[sid].pc = "done",
                                      !.tasks[sid].is_running = "false"]
              /\ UNCHANGED now
         ELSE \E fault2 \in BOOLEAN, reading \in StatsInputs :
                LET stats == GetContainerStats(containers,
                                 tick.tasks[sid].container_id, fault2, reading)
                IN  IF stats.keys = {} \/ ~({"cpu_percent", "memory_mb", "disk_gb"}
                                              \subseteq stats.keys)
                    THEN /\ tick' = [tick EXCEPT !.tasks[sid].pc = "done",
                                                 !.tasks[sid].is_running = "true"]
                         /\ UNCHANGED <<servers, now>>
                    ELSE /\ now < MaxTime
                         /\ now' = now + 1
                         /\ tick' = [tick EXCEPT
                                       !.tasks[sid].pc = "insert",
                                       !.tasks[sid].is_running = "true",
                                       !.tasks[sid].sample =
                                          [server_id |-> sid, ts |-> now + 1,
                                           cpu_pct |-> stats.cpu,
                                           ram_mib |-> stats.mem,
                                           disk_gib |-> stats.disk]]
                         /\ UNCHANGED servers

\* db.usage_samples.insert_one(sample), then publish_usage_sampled
SamplerInsertPub(sid, sent) ==
    /\ LifecycleStep
    /\ tick.pc = "run"
    /\ sid \in DOMAIN tick.tasks
    /\ tick.tasks[sid].pc = "insert"
    /\ usage_samples' = usage_samples \cup {tick.tasks[sid].sample}
    /\ events' = PublishEvent(events, Event("usage.sampled", sid), sent).events
    /\ tick' = [tick EXCEPT !.tasks[sid].pc = "done"]
    /\ UNCHANGED <<servers, containers, nextId, nextCtr, now, resp, upd>>

SamplerInsert(sid) == SamplerInsertPub(sid, TRUE)

\* asyncio.gather returned: sleep until the next tick
SamplerSleep ==
    /\ LifecycleStep
    /\ tick.pc = "run"
    /\ \A sid \in DOMAIN tick.tasks : tick.tasks[sid].pc = "done"
    /\ tick' = Sleeping
    /\ UNCHANGED <<servers, containers, nextId, nextCtr, usage_samples, events,
                   now, resp, upd>>

\* ------------------------------------------------------------ environment
\* A container is removed from the runtime out-of-band.
ContainerRemoved(n) ==
    /\ LifecycleStep
    /\ available
    /\ n \in DOMAIN containers
    /\ containers' = Remove(containers, n)
    /\ UNCHANGED <<servers, nextId, nextCtr, usage_samples, events, now, resp,
                   upd, tick>>

\* ------------------------------------------------------------- arithmetic
\* Python floats are modelled as exact rationals [n, d] in lowest terms.
RECURSIVE GCD(_, _)
GCD(a, b) == IF b = 0 THEN a ELSE GCD(b, a % b)
Abs(x) == IF x < 0 THEN -x ELSE x
Rat(n, d) == LET g == GCD(Abs(n), d) IN [n |-> n \div g, d |-> d \div g]
Zero == Rat(0, 1)
RatAdd(a, b) ==
    LET l == (a.d \div GCD(a.d, b.d)) * b.d
    IN  Rat(a.n * (l \div a.d) + b.n * (l \div b.d), l)
RatMul(a, b) ==
    LET g1 == GCD(Abs(a.n), b.d)
        g2 == GCD(Abs(b.n), a.d)
    IN  Rat((a.n \div g1) * (b.n \div g2), (a.d \div g2) * (b.d \div g1))
RatPos(a) == a.n > 0

\* The integer nearest to n/d (n >= 0, d > 0), a tie going to the even one.
RoundHalfEven(n, d) ==
    LET q == n \div d
        r == n % d
    IN  IF 2 * r < d THEN q
        ELSE IF 2 * r > d THEN q + 1
        ELSE IF q % 2 = 0 THEN q ELSE q + 1

\* round(x, k): the rational with at most k decimals nearest to x.
RoundTo(a, scale) ==
    LET g == GCD(scale, a.d)
    IN  Rat(RoundHalfEven(a.n * (scale \div g), a.d \div g), scale)
Round4(a) == RoundTo(a, 10000)
Round2(a) == RoundTo(a, 100)

\* ---------------------------------------------------- invoice generation
\* settings.*_rate_per_*_hour
VcpuRate == Rat(100, 10000)
RamRate == Rat(15, 10000)
DiskRate == Rat(5, 100000)

\* All orders a sort by ts ascending may leave a set of documents in.
SortedByTs(S) ==
    LET n == Cardinality(S)
    IN  { q \in [1..n -> S] :
            /\ \A i, j \in 1..n : i # j => q[i] # q[j]
            /\ \A i \in 1..n, j \in 1..n : i < j => q[i].ts <= q[j].ts }

\* db.usage_samples.find({"server_id": sid, "ts": {"$gte": start, "$lt": end}})
InPeriod(samples, sid, start, end) ==
    { x \in samples : x.server_id = sid /\ x.ts >= start /\ x.ts < end }

\* A faulty variant of the loop's turn, which weighs the interval with the
\* later sample's readings
PairHoursOfNext(current, next, server) ==
    LET time_diff == Rat(next.ts - current.ts, 3600)
    IN  [vcpu |-> RatMul(RatMul(Rat(next.cpu_pct, 100), Rat(server.cores, 1)), time_diff),
         ram |-> RatMul(Rat(next.ram_mib, 1024), time_diff),
         disk |-> RatMul(Rat(server.disk_gib, 1), time_diff)]
\* One turn of the loop over adjacent samples: what it adds to the three
\* totals.  time_diff = (next.ts - current.ts).total_seconds() / 3600.0
PairHours(current, next, server) ==
    LET time_diff == Rat(next.ts - current.ts, 3600)
    IN  [vcpu |-> RatMul(RatMul(Rat(current.cpu_pct, 100), Rat(server.cores, 1)), time_diff),
         ram |-> RatMul(Rat(current.ram_mib, 1024), time_diff),
         disk |-> RatMul(Rat(server.disk_gib, 1), time_diff)]

NoHours == [vcpu |-> Zero, ram |-> Zero, disk |-> Zero]

\* for i in range(len(usage_samples) - 1): from turn i on, given the totals
\* so far
RECURSIVE ResourceHours(_, _, _, _)
ResourceHours(usage, server, i, acc) ==
    IF i > Len(usage) - 1 THEN acc
    ELSE LET h == PairHours(usage[i], usage[i + 1], server)
         IN  ResourceHours(usage, server, i + 1,
                           [vcpu |-> RatAdd(acc.vcpu, h.vcpu),
                            ram |-> RatAdd(acc.ram, h.ram),
                            disk |-> RatAdd(acc.disk, h.disk)])

\* LineItem(kind=, unit=, quantity=round(hours, 4), rate=, amount=round(hours * rate, 4))
LineItem(kind, unit, hours, rate) ==
    [kind |-> kind, unit |-> unit, quantity |-> Round4(hours), rate |-> rate,
     amount |-> Round4(RatMul(hours, rate))]

\* A faulty variant of the line items, with an item for a total of zero too
ServerItemsAlways(h) ==
    <<LineItem("vCPU", "core-hour", h.vcpu, VcpuRate),
      LineItem("RAM", "gib-hour", h.ram, RamRate),
      LineItem("Disk", "gib-hour", h.disk, DiskRate)>>
\* The line items of one server and what they add to total_amount
ServerItems(h) ==
    (IF RatPos(h.vcpu) THEN <<LineItem("vCPU", "core-hour", h.vcpu, VcpuRate)>> ELSE <<>>)
    \o (IF RatPos(h.ram) THEN <<LineItem("RAM", "gib-hour", h.ram, RamRate)>> ELSE <<>>)
    \o (IF RatPos(h.disk) THEN <<LineItem("Disk", "gib-hour", h.disk, DiskRate)>> ELSE <<>>)
ServerAmount(h) ==
    RatAdd(RatAdd(IF RatPos(h.vcpu) THEN RatMul(h.vcpu, VcpuRate) ELSE Zero,
                  IF RatPos(h.ram) THEN RatMul(h.ram, RamRate) ELSE Zero),
           IF RatPos(h.disk) THEN RatMul(h.disk, DiskRate) ELSE Zero)

\* The body of "for server in servers": usage is the sorted list read for it
ServerHours(server, usage) ==
    IF Len(usage) = 0 THEN NoHours ELSE ResourceHours(usage, server, 1, NoHours)

\* A step of the billing model
BillingStep ==
    /\ resp = NoResp
    /\ UNCHANGED <<available, calc, query>>

\* Bounds of the billing model
MaxReqs == 2         \* billing requests in flight at once
MaxInvoices == 2     \* invoice documents ever inserted
MaxTxns == 2         \* transaction documents ever inserted

InvoiceIds == 1..MaxInvoices
\* InvoiceGenerateRequest bodies: <<period_start, period_end>>, in seconds
Periods == { <<0, 7200>>, <<0, 3600>>, <<3600, 3600>> }
Methods == {"credit_card"}

\* The requests in flight are a bag: two requests of the same caller for the
\* same thing at the same point of the handler are two copies of one element.
InFlight == BagToSet(reqs)
Accept(request) == reqs (+) SetToBag({request})
Retire(request) == reqs (-) SetToBag({request})
Advance(request, pc) == Retire(request) (+) SetToBag({[request EXCEPT !.pc = pc]})

\* The sorted sample lists generate_invoice may read, one for each server
UsageLists(svrs, samples, start, end) ==
    LET lists(sid) == SortedByTs(InPeriod(samples, sid, start, end))
    IN  { f \in [DOMAIN svrs -> UNION { lists(sid) : sid \in DOMAIN svrs }] :
            \A sid \in DOMAIN svrs : f[sid] \in lists(sid) }

\* line_items and total_amount after the loop over the servers sids (taken
\* in id order), given what the servers before them made
RECURSIVE Accumulate(_, _, _, _)
Accumulate(svrs, usage, sids, acc) ==
    IF sids = {} THEN acc
    ELSE LET sid == CHOOSE x \in sids : \A y \in sids : x <= y
             h == ServerHours(svrs[sid], usage[sid])
         IN  Accumulate(svrs, usage, sids \ {sid},
                        [line_items |-> acc.line_items \o ServerItems(h),
                         total_amount |-> RatAdd(acc.total_amount, ServerAmount(h))])

\* The invoice document generate_invoice builds (its id is given at insert)
BuildInvoice(u, start, end, svrs, usage, at) ==
    LET r == Accumulate(svrs, usage, DOMAIN svrs,
                        [line_items |-> <<>>, total_amount |-> Zero])
    IN  [user_id |-> u, period_start |-> start, period_end |-> end,
         line_items |-> r.line_items,
         subtotal |-> Round4(r.total_amount), total |-> Round4(r.total_amount),
         status |-> "draft", created_at |-> at]

\* A faulty variant of the find, which gives the servers of every user
ServersOfAnyone(u) == servers
\* db.servers.find({"user_id": current_user.id})
ServersOf(u) == [sid \in { x \in DOMAIN servers : servers[x].user_id = u } |-> servers[sid]]

\* A faulty variant of the look-up, which never finds an invoice
ExistingInvoiceNone(u, start, end) == FALSE
\* db.invoices.find_one({"user_id", "period_start", "period_end"})
ExistingInvoice(u, start, end) ==
    \E i \in DOMAIN invoices :
        /\ invoices[i].user_id = u
        /\ invoices[i].period_start = start
        /\ invoices[i].period_end = end

\* POST /billing/invoices/generate up to the insert: the period check, the
\* look-up of an invoice of the same period, the reads and the computation.
GenerateCheck(u, period) ==
    /\ BillingStep
    /\ BagCardinality(reqs) < MaxReqs
    /\ UNCHANGED <<servers, containers, nextId, nextCtr, usage_samples, events,
                   now, upd, tick, invoices, transactions, nextInv, nextTxn>>
    /\ LET start == period[1]
           end == period[2]
       IN  IF start >= end
           THEN /\ resp' = Reject("generate", 400, 0,
                                  "Period start must be before period end")
                /\ UNCHANGED reqs
           ELSE IF ExistingInvoice(u, start, end)
           THEN /\ resp' = Reject("generate", 400, 0,
                                  "Invoice already exists for this period")
                /\ UNCHANGED reqs
           ELSE IF DOMAIN ServersOf(u) = {}
           THEN /\ resp' = Resp("generate", 500, 0, <<>>)
                /\ UNCHANGED reqs
           ELSE /\ \E usage \in UsageLists(ServersOf(u), usage_samples, start, end) :
                     reqs' = Accept([pc |-> "insert", op |-> "generate", user |-> u,
                                     invoice |-> BuildInvoice(u, start, end,
                                                    ServersOf(u), usage, now)])
                /\ UNCHANGED resp

\* await db.invoices.insert_one(invoice), then publish_invoice_generated
GenerateInsertPub(r, sent) ==
    /\ BillingStep
    /\ r \in InFlight
    /\ r.pc = "insert"
    /\ nextInv < MaxInvoices
    /\ LET id == nextInv + 1
       IN  /\ invoices' = Put(invoices, id, r.invoice)
           /\ nextInv' = id
           /\ LET p == PublishEvent(events, Event("invoice.generated", id), sent)
              IN  /\ events' = p.events
                  /\ resp' = Resp("generate", IF p.raised THEN 500 ELSE 200, id, <<>>)
    /\ reqs' = Retire(r)
    /\ UNCHANGED <<servers, containers, nextId, nextCtr, usage_samples, now, upd,
                   tick, transactions, nextTxn>>

GenerateInsert(r) == GenerateInsertPub(r, TRUE)

\* A faulty variant of pay_invoice's check, which lets every payment through
AlreadyPaidNever(invoice) == FALSE
\* pay_invoice's check of the status it read
AlreadyPaid(invoice) == invoice.status = "paid"

\* POST /billing/invoices/{id}/pay up to its first write
PayRead(u, iid, method) ==
    /\ BillingStep
    /\ BagCardinality(reqs) < MaxReqs
    /\ UNCHANGED <<servers, containers, nextId, nextCtr, usage_samples, events,
                   now, upd, tick, invoices, transactions, nextInv, nextTxn>>
    /\ IF ~(iid \in DOMAIN invoices /\ invoices[iid].user_id = u)
       THEN /\ resp' = Resp("pay", 404, iid, <<>>)
            /\ UNCHANGED reqs
       ELSE IF AlreadyPaid(invoices[iid])
       THEN /\ resp' = Reject("pay", 400, iid, "Invoice is already paid")
            /\ UNCHANGED reqs
       ELSE /\ reqs' = Accept([pc |-> "transaction", op |-> "pay", user |-> u,
                                invoice_id |-> iid, total |-> invoices[iid].total,
                                method |-> method])
            /\ UNCHANGED resp

\* A faulty variant of the first write of pay_invoice, which goes on to the
\* status update with no transaction written
PayInsertSkipped(r) ==
    /\ BillingStep
    /\ r \in InFlight
    /\ r.pc = "transaction"
    /\ reqs' = Advance(r, "mark")
    /\ UNCHANGED <<servers, containers, nextId, nextCtr, usage_samples, events,
                   now, upd, tick, invoices, nextInv, resp, transactions, nextTxn>>
\* await db.transactions.insert_one(transaction.dict())
PayInsert(r) ==
    /\ BillingStep
    /\ r \in InFlight
    /\ r.pc = "transaction"
    /\ nextTxn < MaxTxns
    /\ transactions' = transactions \cup
          { [id |-> nextTxn + 1, invoice_id |-> r.invoice_id,
             amount |-> r.total, method |-> r.method, ts |-> now] }
    /\ nextTxn' = nextTxn + 1
    /\ reqs' = Advance(r, "mark")
    /\ UNCHANGED <<servers, containers, nextId, nextCtr, usage_samples, events,
                   now, upd, tick, invoices, nextInv, resp>>

\* await db.invoices.update_one({"id": invoice_id}, {"$set": {"status": PAID}}).
\* The store may fail this second write; the transaction stays inserted.
PayMark(r) ==
    /\ BillingStep
    /\ r \in InFlight
    /\ r.pc = "mark"
    /\ \E ok \in BOOLEAN :
         IF ok
         THEN /\ invoices' = IF r.invoice_id \in DOMAIN invoices
                             THEN [invoices EXCEPT ![r.invoice_id].status = "paid"]
                             ELSE invoices
              /\ resp' = Resp("pay", 200, r.invoice_id, <<>>)
         ELSE /\ UNCHANGED invoices
              /\ resp' = Resp("pay", 500, r.invoice_id, <<>>)
    /\ reqs' = Retire(r)
    /\ UNCHANGED <<servers, containers, nextId, nextCtr, usage_samples, events,
                   now, upd, tick, transactions, nextInv, nextTxn>>

\* GET /billing/invoices: the invoices of the caller
ListInvoices(u) ==
    /\ BillingStep
    /\ resp' = Answer("invoices", 0,
                       { invoices[i] : i \in { x \in DOMAIN invoices :
                                                 invoices[x].user_id = u } })
    /\ UNCHANGED <<servers, containers, nextId, nextCtr, usage_samples, events,
                   now, upd, tick, invoices, transactions, nextInv, nextTxn, reqs>>

\* GET /billing/invoices/{invoice_id}
GetInvoice(u, iid) ==
    /\ BillingStep
    /\ resp' = IF ~(iid \in DOMAIN invoices /\ invoices[iid].user_id = u)
               THEN Reject("invoice", 404, iid, "Invoice not found")
               ELSE Answer("invoice", iid, {invoices[iid]})
    /\ UNCHANGED <<servers, containers, nextId, nextCtr, usage_samples, events,
                   now, upd, tick, invoices, transactions, nextInv, nextTxn, reqs>>

\* ----------------------------------------------------------- specifications
vars == <<available, servers, containers, nextId, nextCtr, usage_samples,
          events, now, resp, upd, tick, invoices, transactions, nextInv,
          nextTxn, reqs, calc, query>>

NoCalc == [pc |-> "none"]
NoQuery == [pc |-> "none"]

\* The caller receives the response of the request that has just completed.
\* resp holds a response for that one step only: it is what the request
\* returned, never an input of a handler.
Deliver ==
    /\ resp # NoResp
    /\ resp' = NoResp
    /\ UNCHANGED <<available, servers, containers, nextId, nextCtr, usage_samples,
                   events, now, upd, tick, invoices, transactions, nextInv,
                   nextTxn, reqs, calc, query>>

\* Spec: the server lifecycle, the runtime and the sampler, from an empty
\* store.  The adapter's mode is fixed when the process starts.
Init ==
    /\ available \in BOOLEAN
    /\ servers = <<>>
    /\ containers = <<>>
    /\ nextId = 0
    /\ nextCtr = 0
    /\ usage_samples = {}
    /\ events = <<>>
    /\ now = 0
    /\ resp = NoResp
    /\ upd = Idle
    /\ tick = Sleeping
    /\ invoices = <<>>
    /\ transactions = {}
    /\ nextInv = 0
    /\ nextTxn = 0
    /\ reqs = EmptyBag
    /\ calc = NoCalc
    /\ query = NoQuery

Next ==
    \/ Deliver
    \/ \E u \in Owners, d \in CreateInputs : CreateServer(u, d)
    \/ \E u \in Users, sid \in ServerIds : StartServer(u, sid)
    \/ \E u \in Users, sid \in ServerIds : StopServer(u, sid)
    \/ \E u \in Users, sid \in ServerIds : DeleteServer(u, sid)
    \/ \E u \in Users, sid \in ServerIds, data \in UpdateInputs :
          UpdateRead(u, sid, data)
    \/ UpdateReplace
    \/ UpdateWrite
    \/ SamplerRead
    \/ \E sid \in ServerIds : SamplerProbe(sid)
    \/ \E sid \in ServerIds : SamplerInsert(sid)
    \/ SamplerSleep
    \/ \E n \in 1..MaxCtrs : ContainerRemoved(n)

Spec == Init /\ [][Next]_vars

\* SpecBilling: invoice generation and payment, MaxReqs requests at a time,
\* over a store that holds a running server of user 1 and its samples (user 2
\* owns no server).
BillingServer ==
    [id |-> 1, user_id |-> 1, name |-> 0, cpu_limit |-> 2, cores |-> 2,
     ram_gib |-> 2, disk_gib |-> 1, status |-> "running",
     container_id |-> CtrHandle(1), created_at |-> 1, updated_at |-> 2]
Sample(sid, ts, cpu, ram, disk) ==
    [server_id |-> sid, ts |-> ts, cpu_pct |-> cpu, ram_mib |-> ram, disk_gib |-> disk]
BillingSamples ==
    { Sample(1, 0, 50, 512, 1), Sample(1, 1800, 25, 256, 1),
      Sample(1, 3600, 50, 512, 1) }

InitBilling ==
    /\ available = TRUE
    /\ servers = [sid \in {1} |-> BillingServer]
    /\ containers = [n \in {1} |->
                       [name |-> 1, state |-> "running", cpu_quota |-> 200000,
                        mem_gib |-> 2]]
    /\ nextId = 1
    /\ nextCtr = 1
    /\ usage_samples = BillingSamples
    /\ events = <<>>
    /\ now = MaxTime
    /\ resp = NoResp
    /\ upd = Idle
    /\ tick = Sleeping
    /\ invoices = <<>>
    /\ transactions = {}
    /\ nextInv = 0
    /\ nextTxn = 0
    /\ reqs = EmptyBag
    /\ calc = NoCalc
    /\ query = NoQuery

NextBilling ==
    \/ Deliver
    \/ \E u \in Users, period \in Periods : GenerateCheck(u, period)
    \/ \E r \in InFlight : GenerateInsert(r)
    \/ \E u \in Users, iid \in InvoiceIds, method \in Methods :
          PayRead(u, iid, method)
    \/ \E r \in InFlight : PayInsert(r)
    \/ \E r \in InFlight : PayMark(r)

SpecBilling == InitBilling /\ [][NextBilling]_vars

\* ------------------------------------------- SpecIntegrate: resource hours
\* The integration loop of generate_invoice as a function of its inputs: the
\* store holds one server and a set of its samples, and a computation reads
\* the samples of a period, sorted, and integrates them.
MaxSamples == 3      \* samples of the server in the store

CalcTimes == {0, 1800, 3600}
CalcReadings == { <<50, 512>>, <<25, 1024>>, <<100, 256>> }
CalcPool ==
    { Sample(1, ts, r[1], r[2], 1) : ts \in CalcTimes, r \in CalcReadings }
CalcSampleSets ==
    { S \in SUBSET CalcPool : Cardinality(S) >= 1 /\ Cardinality(S) <= MaxSamples }
CalcServers ==
    { [BillingServer EXCEPT !.cores = c, !.disk_gib = g] : c \in {1, 2}, g \in {1, 2} }
CalcPeriods == { <<0, 7200>>, <<0, 3600>> }

InitIntegrate ==
    /\ available = TRUE
    /\ servers \in { [sid \in {1} |-> server] : server \in CalcServers }
    /\ containers = <<>>
    /\ nextId = 1
    /\ nextCtr = 1
    /\ usage_samples \in CalcSampleSets
    /\ events = <<>>
    /\ now = MaxTime
    /\ resp = NoResp
    /\ upd = Idle
    /\ tick = Sleeping
    /\ invoices = <<>>
    /\ transactions = {}
    /\ nextInv = 0
    /\ nextTxn = 0
    /\ reqs = EmptyBag
    /\ calc = NoCalc
    /\ query = NoQuery

\* The body of "for server in servers" for server sid and a period: the
\* sorted read of its samples, the loop over adjacent samples, the line items.
IntegrateUsage(sid, start, end) ==
    /\ calc = NoCalc
    /\ sid \in DOMAIN servers
    /\ \E usage \in SortedByTs(InPeriod(usage_samples, sid, start, end)) :
         LET h == ServerHours(servers[sid], usage)
         IN  calc' = [pc |-> "done", server |-> servers[sid], start |-> start,
                      end |-> end, usage |-> usage, hours |-> h,
                      items |-> ServerItems(h), amount |-> ServerAmount(h)]
    /\ UNCHANGED <<available, servers, containers, nextId, nextCtr, usage_samples,
                   events, now, resp, upd, tick, invoices, transactions, nextInv,
                   nextTxn, reqs, query>>

NextIntegrate ==
    \E sid \in ServerIds, period \in CalcPeriods :
        IntegrateUsage(sid, period[1], period[2])

SpecIntegrate == InitIntegrate /\ [][NextIntegrate]_vars

\* ------------------------------------------------ SpecUsage: usage queries
\* GET /servers/{id}/usage over a store that holds server 1 of user 1 and a
\* set of samples.
Intervals == {"1m", "5m", "1h", "1d"}
QueryIntervals == Intervals \cup {"2h"}

\* $dateTrunc of a ts (seconds) to the unit of an interval
BinSeconds(interval) ==
    CASE interval = "5m" -> 300
      [] interval = "1h" -> 3600
      [] interval = "1d" -> 86400
\* A faulty variant of $dateTrunc, which leaves the ts as it is
DateTruncNone(ts, interval) == ts
DateTrunc(ts, interval) == ts - (ts % BinSeconds(interval))

\* datetime.isoformat(): the text of a datetime
IsoFormat(ts) == [iso |-> ts]

\* $match: the samples of the server with from_date <= ts <= to_date
Matched(samples, sid, from, to) ==
    { x \in samples : x.server_id = sid /\ x.ts >= from /\ x.ts <= to }

RECURSIVE SumField(_, _)
SumField(S, field) ==
    IF S = {} THEN 0
    ELSE LET x == CHOOSE y \in S : TRUE
         IN  x[field] + SumField(S \ {x}, field)

\* {"$avg": "$field"} over the documents of a group
Avg(S, field) == Rat(SumField(S, field), Cardinality(S))

\* $group on the truncated ts, then $project: the row of one bucket
BucketRow(S, bucket) ==
    [ts |-> IsoFormat(bucket),
     cpu_pct |-> Round2(Avg(S, "cpu_pct")),
     ram_mib |-> Round2(Avg(S, "ram_mib")),
     disk_gib |-> Round2(Avg(S, "disk_gib")),
     sample_count |-> Cardinality(S)]

\* A raw document as the handler returns it: ts as text
RawRow(x) == [x EXCEPT !.ts = IsoFormat(x.ts)]

\* All enumerations of a set: $group gives its groups in no specified order.
Orders(S) ==
    LET n == Cardinality(S)
    IN  { q \in [1..n -> S] : \A i, j \in 1..n : i # j => q[i] # q[j] }

\* The documents db.usage_samples.aggregate(pipeline) may yield
Aggregate(samples, sid, from, to, interval) ==
    LET docs == Matched(samples, sid, from, to)
    IN  IF interval = "1m"
        THEN { [i \in DOMAIN q |-> RawRow(q[i])] : q \in SortedByTs(docs) }
        ELSE LET buckets == { DateTrunc(x.ts, interval) : x \in docs }
                 group(b) == { x \in docs : DateTrunc(x.ts, interval) = b }
             IN  Orders({ BucketRow(group(b), b) : b \in buckets })

QueryRanges == { <<0, 3600>>, <<60, 120>> }

get_server_usage(u, sid, from, to, interval) ==
    /\ query = NoQuery
    /\ IF ~Found(u, sid)
       THEN query' = [pc |-> "done", code |-> 404, server_id |-> sid, from |-> from,
                      to |-> to, interval |-> interval, data |-> <<>>]
       ELSE IF interval \notin Intervals
       THEN query' = [pc |-> "done", code |-> 400, server_id |-> sid, from |-> from,
                      to |-> to, interval |-> interval, data |-> <<>>]
       ELSE \E data \in Aggregate(usage_samples, sid, from, to, interval) :
              query' = [pc |-> "done", code |-> 200, server_id |-> sid, from |-> from,
                        to |-> to, interval |-> interval, data |-> data]
    /\ UNCHANGED <<available, servers, containers, nextId, nextCtr, usage_samples,
                   events, now, resp, upd, tick, invoices, transactions, nextInv,
                   nextTxn, reqs, calc>>

\* The caller receives the rows.
QueryReturn ==
    /\ query # NoQuery
    /\ query' = NoQuery
    /\ UNCHANGED <<available, servers, containers, nextId, nextCtr, usage_samples,
                   events, now, resp, upd, tick, invoices, transactions, nextInv,
                   nextTxn, reqs, calc>>

MaxRows == 4         \* samples of server 1 in the store
UsageTimes == {0, 60, 120, 3600}
UsageReadings == { <<25, 256>>, <<50, 512>> }
UsagePool ==
    { Sample(1, ts, r[1], r[2], 1) : ts \in UsageTimes, r \in UsageReadings }
UsageSampleSets ==
    { S \cup {Sample(2, 0, 100, 1024, 2)} :
        S \in { T \in SUBSET UsagePool : Cardinality(T) <= MaxRows } }

InitUsage ==
    /\ available = TRUE
    /\ servers = [sid \in {1} |-> BillingServer]
    /\ containers = <<>>
    /\ nextId = 1
    /\ nextCtr = 1
    /\ usage_samples \in UsageSampleSets
    /\ events = <<>>
    /\ now = MaxTime
    /\ resp = NoResp
    /\ upd = Idle
    /\ tick = Sleeping
    /\ invoices = <<>>
    /\ transactions = {}
    /\ nextInv = 0
    /\ nextTxn = 0
    /\ reqs = EmptyBag
    /\ calc = NoCalc
    /\ query = NoQuery

NextUsage ==
    \/ \E u \in Users, sid \in ServerIds, range \in QueryRanges,
          interval \in QueryIntervals :
          get_server_usage(u, sid, range[1], range[2], interval)
    \/ QueryReturn

SpecUsage == InitUsage /\ [][NextUsage]_vars

\* ------------------------------------- SpecShape: NaN in request bodies
\* The lifecycle requests without the sampler, with bodies that carry NaN in
\* a float field next to a valid and an invalid one.
ShapeInputs ==
    { [cpu_limit |-> 1, cores |-> 1, ram_gib |-> 1, disk_gib |-> 1],
      [cpu_limit |-> 1, cores |-> 1, ram_gib |-> 1, disk_gib |-> 0] } \cup NaNShapes
ShapeUpdates == { {<<"cores", 2>>}, {<<"cores", 0>>} } \cup NaNUpdates

NextShape ==
    \/ Deliver
    \/ \E u \in Owners, d \in ShapeInputs : CreateServer(u, d)
    \/ \E u \in Users, sid \in ServerIds : StartServer(u, sid)
    \/ \E u \in Users, sid \in ServerIds : StopServer(u, sid)
    \/ \E u \in Users, sid \in ServerIds : DeleteServer(u, sid)
    \/ \E u \in Users, sid \in ServerIds, data \in ShapeUpdates :
          UpdateRead(u, sid, data)
    \/ UpdateReplace
    \/ UpdateWrite

SpecShape == Init /\ [][NextShape]_vars

\* ------------------------------------ SpecLoop: the sampler and failures
\* The sampling loop alone over a store with two running servers, with the
\* store failing any of its calls.  An exception inside sample_server_usage
\* (delete_one or insert_one raising) is caught there and ends the task; an
\* exception in the loop body (db.servers.find raising) is caught by the
\* loop, which sleeps and goes round again.

\* A faulty variant of the loop's handler, which lets the exception end the
\* loop
LoopAfterErrorStops == [pc |-> "stopped", tasks |-> <<>>]
\* except Exception in usage_sampling_loop: log, sleep, next iteration
LoopAfterError == Sleeping

\* db.servers.find({"status": "running"}) raises
SamplerReadFails ==
    /\ LifecycleStep
    /\ tick.pc = "sleep"
    /\ tick' = LoopAfterError
    /\ UNCHANGED <<servers, containers, nextId, nextCtr, usage_samples, events,
                   now, resp, upd>>

\* except Exception in sample_server_usage: the store call the task was at
\* (delete_one after the probe, or insert_one) raised; nothing is written and
\* the task ends.
SamplerTaskFails(sid) ==
    /\ LifecycleStep
    /\ tick.pc = "run"
    /\ sid \in DOMAIN tick.tasks
    /\ tick.tasks[sid].pc \in {"probe", "insert"}
    /\ tick' = [tick EXCEPT !.tasks[sid].pc = "done"]
    /\ UNCHANGED <<servers, containers, nextId, nextCtr, usage_samples, events,
                   now, resp, upd>>

LoopServer(sid) ==
    [BillingServer EXCEPT !.id = sid, !.created_at = 0, !.updated_at = 0,
                          !.container_id = IF available THEN CtrHandle(sid)
                                           ELSE MockHandle(sid)]

InitLoop ==
    /\ available \in BOOLEAN
    /\ servers = [sid \in {1, 2} |-> LoopServer(sid)]
    /\ containers = IF available
                    THEN [n \in {1, 2} |-> [name |-> n, state |-> "running",
                                            cpu_quota |-> 200000, mem_gib |-> 2]]
                    ELSE <<>>
    /\ nextId = MaxServers
    /\ nextCtr = MaxCtrs
    /\ usage_samples = {}
    /\ events = <<>>
    /\ now = 0
    /\ resp = NoResp
    /\ upd = Idle
    /\ tick = Sleeping
    /\ invoices = <<>>
    /\ transactions = {}
    /\ nextInv = 0
    /\ nextTxn = 0
    /\ reqs = EmptyBag
    /\ calc = NoCalc
    /\ query = NoQuery

NextLoop ==
    \/ SamplerRead
    \/ SamplerReadFails
    \/ \E sid \in ServerIds : SamplerProbe(sid)
    \/ \E sid \in ServerIds : SamplerInsert(sid)
    \/ \E sid \in ServerIds : SamplerTaskFails(sid)
    \/ SamplerSleep
    \/ \E n \in 1..MaxCtrs : ContainerRemoved(n)

\* The worker is a process of its own: its loop and every task the loop
\* awaits keep being scheduled.
FairLoop ==
    /\ WF_vars(SamplerRead \/ SamplerReadFails)
    /\ \A sid \in ServerIds :
          WF_vars(SamplerProbe(sid) \/ SamplerInsert(sid) \/ SamplerTaskFails(sid))
    /\ WF_vars(SamplerSleep)

SpecLoop == InitLoop /\ [][NextLoop]_vars /\ FairLoop

\* ------------------------------- SpecHang: a runtime call never returns
\* The adapter calls the runtime with no timeout of its own
\* (client.containers.get, container.stats), and sample_server_usage awaits
\* them with none either: a call that never returns leaves its task waiting.
\* The calls are synchronous, so while one waits the worker runs no other
\* task and gather does not return.
SamplerCallHangs(sid) ==
    /\ LifecycleStep
    /\ available
    /\ tick.pc = "run"
    /\ sid \in DOMAIN tick.tasks
    /\ tick.tasks[sid].pc = "probe"
    /\ tick' = [tick EXCEPT !.tasks[sid].pc = "waiting"]
    /\ UNCHANGED <<servers, containers, nextId, nextCtr, usage_samples, events,
                   now, resp, upd>>

\* No task of the tick waits for a runtime call that does not return
Unblocked == \A sid \in DOMAIN tick.tasks : tick.tasks[sid].pc # "waiting"

NextHang ==
    \/ SamplerRead
    \/ \E sid \in ServerIds : Unblocked /\ SamplerProbe(sid)
    \/ \E sid \in ServerIds : Unblocked /\ SamplerCallHangs(sid)
    \/ \E sid \in ServerIds : Unblocked /\ SamplerInsert(sid)
    \/ SamplerSleep
    \/ \E n \in 1..MaxCtrs : ContainerRemoved(n)

FairHang ==
    /\ WF_vars(SamplerRead)
    /\ \A sid \in ServerIds :
          WF_vars(Unblocked /\ (SamplerProbe(sid) \/ SamplerInsert(sid)))
    /\ WF_vars(SamplerSleep)

SpecHang == InitLoop /\ [][NextHang]_vars /\ FairHang

\* ---------------------------------- SpecPublish: the broker may fail
\* The handlers that publish an event (create, start, stop, the sampler's
\* insert, generate), each with a broker that takes the event or not, over a
\* store that holds a stopped server of user 1 and its samples, with room
\* for one more server, container and invoice and two more readings of the
\* clock.  The requests come one at a time, next to the sampler.
PublishServer ==
    [BillingServer EXCEPT !.status = "stopped", !.created_at = 0, !.updated_at = 0]

InitPublish ==
    /\ available = TRUE
    /\ servers = [sid \in {1} |-> PublishServer]
    /\ containers = [n \in {1} |->
                       [name |-> 1, state |-> "exited", cpu_quota |-> 200000,
                        mem_gib |-> 2]]
    /\ nextId = MaxServers - 1
    /\ nextCtr = MaxCtrs - 1
    /\ usage_samples = BillingSamples
    /\ events = <<>>
    /\ now = MaxTime - 2
    /\ resp = NoResp
    /\ upd = Idle
    /\ tick = Sleeping
    /\ invoices = <<>>
    /\ transactions = {}
    /\ nextInv = MaxInvoices - 1
    /\ nextTxn = 0
    /\ reqs = EmptyBag
    /\ calc = NoCalc
    /\ query = NoQuery

\* No billing request is under way: the requests come one at a time.
Idling == reqs = EmptyBag

NextPublish ==
    \/ Deliver
    \/ \E u \in Owners, d \in ValidShapes, sent \in BOOLEAN :
          Idling /\ CreateServerPub(u, d, sent)
    \/ \E u \in Owners, sid \in ServerIds, sent \in BOOLEAN :
          Idling /\ StartServerPub(u, sid, sent)
    \/ \E u \in Owners, sid \in ServerIds, sent \in BOOLEAN :
          Idling /\ StopServerPub(u, sid, sent)
    \/ SamplerRead
    \/ \E sid \in ServerIds : SamplerProbe(sid)
    \/ \E sid \in ServerIds, sent \in BOOLEAN : SamplerInsertPub(sid, sent)
    \/ SamplerSleep
    \/ \E u \in Owners : Idling /\ GenerateCheck(u, <<0, 7200>>)
    \/ \E r \in InFlight, sent \in BOOLEAN : GenerateInsertPub(r, sent)

SpecPublish == InitPublish /\ [][NextPublish]_vars

\* ------------------------------- SpecInvoice: the figures of an invoice
\* generate_invoice over a store that holds one running server of user 1
\* and a set of its samples, taken at uneven times with readings that give
\* resource hours of more than four decimals; the requests come one at a
\* time and there is room for one invoice.
InvoiceTimes == {0, 92, 1800}
InvoiceReadings == { <<25, 1336>>, <<50, 512>> }
InvoicePool ==
    { Sample(1, ts, r[1], r[2], 1) : ts \in InvoiceTimes, r \in InvoiceReadings }
InvoiceSampleSets ==
    { S \in SUBSET InvoicePool : Cardinality(S) <= MaxSamples }
InvoiceServers == { [BillingServer EXCEPT !.cores = c] : c \in {1, 2} }

InitInvoice ==
    /\ available = TRUE
    /\ servers \in { [sid \in {1} |-> server] : server \in InvoiceServers }
    /\ containers = <<>>
    /\ nextId = 1
    /\ nextCtr = 1
    /\ usage_samples \in InvoiceSampleSets
    /\ events = <<>>
    /\ now = MaxTime
    /\ resp = NoResp
    /\ upd = Idle
    /\ tick = Sleeping
    /\ invoices = <<>>
    /\ transactions = {}
    /\ nextInv = MaxInvoices - 1
    /\ nextTxn = 0
    /\ reqs = EmptyBag
    /\ calc = NoCalc
    /\ query = NoQuery

NextInvoice ==
    \/ Deliver
    \/ \E u \in Owners, period \in Periods : Idling /\ GenerateCheck(u, period)
    \/ \E r \in InFlight : GenerateInsert(r)

SpecInvoice == InitInvoice /\ [][NextInvoice]_vars

\* ------------------------------------------- SpecAccess: two users' data
\* Every handler that takes a server or an invoice id, and the two lists, over
\* a store in which each of two users owns a server with samples, and user 2
\* an invoice.  The clock allows one more write of a timestamp, and the
\* store one more container, invoice and transaction.  The requests come one
\* at a time.
OwnedServer(sid, u, status) ==
    [BillingServer EXCEPT !.id = sid, !.user_id = u, !.status = status,
                          !.container_id = CtrHandle(sid)]
AccessInvoice ==
    [user_id |-> 2, period_start |-> 0, period_end |-> 3600, line_items |-> <<>>,
     subtotal |-> Zero, total |-> Zero, status |-> "draft", created_at |-> 0]

InitAccess ==
    /\ available = TRUE
    /\ servers = [sid \in {1, 2} |->
                    IF sid = 1 THEN OwnedServer(1, 1, "running")
                    ELSE OwnedServer(2, 2, "stopped")]
    /\ containers = [n \in {1, 2} |->
                       [name |-> n, state |-> IF n = 1 THEN "running" ELSE "exited",
                        cpu_quota |-> 200000, mem_gib |-> 2]]
    /\ nextId = MaxServers
    /\ nextCtr = MaxCtrs - 1
    /\ usage_samples = { Sample(1, 0, 50, 512, 1), Sample(1, 3600, 50, 512, 1),
                         Sample(2, 0, 25, 256, 1), Sample(2, 1800, 25, 256, 1) }
    /\ events = <<>>
    /\ now = MaxTime - 1
    /\ resp = NoResp
    /\ upd = Idle
    /\ tick = Sleeping
    /\ invoices = [i \in {1} |-> AccessInvoice]
    /\ transactions = {}
    /\ nextInv = MaxInvoices - 1
    /\ nextTxn = MaxTxns - 1
    /\ reqs = EmptyBag
    /\ calc = NoCalc
    /\ query = NoQuery

\* No request is under way: SpecAccess takes the requests one at a time.
Quiet == resp = NoResp /\ upd = Idle /\ reqs = EmptyBag /\ query = NoQuery

NextAccess ==
    \/ Deliver
    \/ \E u \in Users : Quiet /\ ListServers(u)
    \/ \E u \in Users, sid \in ServerIds : Quiet /\ GetServer(u, sid)
    \/ \E u \in Users, sid \in ServerIds : Quiet /\ StartServer(u, sid)
    \/ \E u \in Users, sid \in ServerIds : Quiet /\ StopServer(u, sid)
    \/ \E u \in Users, sid \in ServerIds : Quiet /\ DeleteServer(u, sid)
    \/ \E u \in Users, sid \in ServerIds, data \in UpdateInputs :
          Quiet /\ UpdateRead(u, sid, data)
    \/ UpdateReplace
    \/ UpdateWrite
    \/ \E u \in Users, sid \in ServerIds :
          Quiet /\ get_server_usage(u, sid, 0, 3600, "1h")
    \/ QueryReturn
    \/ \E u \in Users : Quiet /\ ListInvoices(u)
    \/ \E u \in Users, iid \in InvoiceIds : Quiet /\ GetInvoice(u, iid)
    \/ \E u \in Users : Quiet /\ GenerateCheck(u, <<0, 7200>>)
    \/ \E r \in InFlight : GenerateInsert(r)
    \/ \E u \in Users, iid \in InvoiceIds, method \in Methods :
          Quiet /\ PayRead(u, iid, method)
    \/ \E r \in InFlight : PayInsert(r)
    \/ \E r \in InFlight : PayMark(r)

SpecAccess == InitAccess /\ [][NextAccess]_vars

\* ------------------------------------------------- properties: lifecycle
\* C1 as stated: every create request whose four resource fields are all
\* positive succeeds, and the server it persists has status created and a
\* non-empty container_id, in real and in mock mode.
C1_CreateAlwaysSucceeds ==
    [][\A u \in Users, d \in ValidShapes :
         CreateServer(u, d) =>
           /\ resp'.code = 200
           /\ resp'.id \in DOMAIN servers'
           /\ servers'[resp'.id].status = "created"
           /\ servers'[resp'.id].container_id # NoHandle]_vars

\* C1 amended: a create request with four positive resource fields succeeds
\* unless the runtime fails create_container, which mock mode never does; a
\* failed one is answered 500 and persists nothing; a successful one persists
\* exactly one new server, of the caller and of the requested shape, with
\* status created and a non-empty container_id.
C1_CreateSucceedsUnlessRuntimeFails ==
    [][\A u \in Users, d \in ValidShapes :
         CreateServer(u, d) =>
           /\ resp'.op = "create"
           /\ resp'.code \in {200, 500}
           /\ ~available => resp'.code = 200
           /\ resp'.code = 500 => UNCHANGED <<servers, containers, events>>
           /\ resp'.code = 200 =>
                /\ resp'.id \notin DOMAIN servers
                /\ DOMAIN servers' = DOMAIN servers \cup {resp'.id}
                /\ \A sid \in DOMAIN servers : servers'[sid] = servers[sid]
                /\ servers'[resp'.id].user_id = u
                /\ servers'[resp'.id].cpu_limit = d.cpu_limit
                /\ servers'[resp'.id].cores = d.cores
                /\ servers'[resp'.id].ram_gib = d.ram_gib
                /\ servers'[resp'.id].disk_gib = d.disk_gib
                /\ servers'[resp'.id].status = "created"
                /\ servers'[resp'.id].container_id # NoHandle
                /\ available => Present(containers', servers'[resp'.id].container_id)]_vars

\* A create request has just succeeded against the real runtime.
C1_Witness ==
    /\ available
    /\ resp.op = "create"
    /\ resp.code = 200
    /\ resp.id \in DOMAIN servers
    /\ servers[resp.id].status = "created"
    /\ servers[resp.id].container_id = CtrHandle(nextCtr)

\* C2: a start request that finds the server with status running is answered
\* 400 "Server is already running" and changes nothing: no adapter call, the
\* server documents, the containers, the events and the clock stay as they
\* are.
C2_StartOfRunningRejected ==
    [][\A u \in Users, sid \in ServerIds :
         (StartServer(u, sid) /\ Found(u, sid) /\ servers[sid].status = "running") =>
           /\ resp' = Reject("start", 400, sid, "Server is already running")
           /\ resp'.calls = <<>>
           /\ UNCHANGED <<servers, containers, events, now>>]_vars

\* A start of a running server has just been rejected.
C2_Witness ==
    /\ resp = Reject("start", 400, resp.id, "Server is already running")
    /\ resp.id \in DOMAIN servers
    /\ servers[resp.id].status = "running"

\* C3 as stated: when an update that replaced the container of a running
\* server writes the server document, the container_id it persists is the id
\* of the container the replacement created and started.
C3_PersistedHandleIsRecreated ==
    [][(UpdateWrite /\ upd.calls = ReplaceCalls /\ upd.sid \in DOMAIN servers) =>
         servers'[upd.sid].container_id = upd.created]_vars

\* C4: from the step in which a task of the sampler's tick probes its server's
\* container as not running until the tick ends, the server's document is
\* absent from the store, and no step adds a usage sample of that server or
\* publishes a usage.sampled event for it.
ProbedNotRunning(sid) ==
    /\ tick.pc = "run"
    /\ sid \in DOMAIN tick.tasks
    /\ tick.tasks[sid].is_running = "false"
SamplesOf(samples, sid) == { x \in samples : x.server_id = sid }
SampledEvents(evs, sid) ==
    LET ofServer(e) == e = Event("usage.sampled", sid)
    IN  Len(SelectSeq(evs, ofServer))
C4_OrphanRemovedAndNotSampled ==
    [][\A sid \in ServerIds :
         ProbedNotRunning(sid)' =>
           /\ sid \notin DOMAIN servers'
           /\ tick'.tasks[sid].pc = "done"
           /\ SamplesOf(usage_samples', sid) = SamplesOf(usage_samples, sid)
           /\ SampledEvents(events', sid) = SampledEvents(events, sid)]_vars

\* In real mode a task has found its server's container not running, and the
\* server is gone.
C4_Witness ==
    /\ available
    /\ \E sid \in ServerIds :
         /\ ProbedNotRunning(sid)
         /\ sid \notin DOMAIN servers
         /\ tick.tasks[sid].container_id.kind = "ctr"

\* --------------------------------------------------- properties: billing
\* C5: a generate request of a user for a period of which the store already
\* holds an invoice of that user is answered 400 "Invoice already exists for
\* this period", inserts nothing and leaves the invoices as they are.
C5_DuplicateGenerateRejected ==
    [][\A u \in Users, period \in Periods :
         (GenerateCheck(u, period) /\ period[1] < period[2]
            /\ \E i \in DOMAIN invoices :
                 /\ invoices[i].user_id = u
                 /\ invoices[i].period_start = period[1]
                 /\ invoices[i].period_end = period[2]) =>
           /\ resp' = Reject("generate", 400, 0,
                             "Invoice already exists for this period")
           /\ UNCHANGED <<invoices, nextInv, reqs, events>>]_vars

\* A generate request has just been rejected as a duplicate, the store
\* holding an invoice.
C5_Witness ==
    /\ resp = Reject("generate", 400, 0, "Invoice already exists for this period")
    /\ DOMAIN invoices # {}

\* C6 as stated: in every reachable state the store holds at most one invoice
\* for each (user_id, period_start, period_end).
C6_OneInvoicePerPeriod ==
    \A i, j \in DOMAIN invoices :
        (/\ invoices[i].user_id = invoices[j].user_id
         /\ invoices[i].period_start = invoices[j].period_start
         /\ invoices[i].period_end = invoices[j].period_end) => i = j

\* C7: the insert step of a pay request adds exactly one transaction, which
\* refers to the request's invoice; a pay request that completes with 200
\* leaves its invoice paid; a pay request that finds its invoice paid is
\* answered 400 "Invoice is already paid", starts no payment and changes
\* neither the transactions nor the invoices.
TransactionsOf(txns, iid) == { t \in txns : t.invoice_id = iid }
C7_PayOnceThenRejected ==
    [][/\ \A r \in InFlight :
            /\ PayInsert(r) =>
                 /\ r.invoice_id \in DOMAIN invoices
                 /\ \E t \in transactions' \ transactions :
                      /\ transactions' = transactions \cup {t}
                      /\ t.invoice_id = r.invoice_id
                      /\ t.amount = invoices[r.invoice_id].total
            /\ (PayMark(r) /\ resp'.code = 200) =>
                 /\ invoices'[r.invoice_id].status = "paid"
                 /\ TransactionsOf(transactions', r.invoice_id) # {}
                 /\ transactions' = transactions
       /\ \A u \in Users, iid \in InvoiceIds, method \in Methods :
            (PayRead(u, iid, method) /\ iid \in DOMAIN invoices
               /\ invoices[iid].user_id = u /\ invoices[iid].status = "paid") =>
              /\ resp' = Reject("pay", 400, iid, "Invoice is already paid")
              /\ UNCHANGED <<invoices, transactions, nextTxn, reqs>>]_vars

\* A pay request on a paid invoice, which has exactly one transaction, has
\* just been rejected.
C7_Witness ==
    /\ resp = Reject("pay", 400, resp.id, "Invoice is already paid")
    /\ resp.id \in DOMAIN invoices
    /\ invoices[resp.id].status = "paid"
    /\ Cardinality(TransactionsOf(transactions, resp.id)) = 1

\* C8 as stated: in every reachable state each invoice has at most one
\* transaction referring to it.
C8_OneTransactionPerInvoice ==
    \A t1, t2 \in transactions : t1.invoice_id = t2.invoice_id => t1 = t2

\* ------------------------------------------ properties: invoice arithmetic
\* The sum over the first k adjacent pairs of a sorted list of the earlier
\* sample's field times the seconds to the later sample.
RECURSIVE LeftSum(_, _, _)
LeftSum(usage, field, k) ==
    IF k = 0 THEN 0
    ELSE LeftSum(usage, field, k - 1)
         + usage[k][field] * (usage[k + 1].ts - usage[k].ts)

\* C9: for a server with n >= 2 samples in [start, end), sorted by ts,
\* vcpu_hours is the sum over i < n of (s_i.cpu_pct / 100) * cores * dt_i,
\* ram_hours the sum of (s_i.ram_mib / 1024) * dt_i and disk_hours the sum of
\* disk_gib * dt_i, dt_i being the hours from s_i to s_(i+1) and s_i the
\* earlier sample of the pair; with cores = 2 and cpu_pct = 50 over one hour
\* that is 1 core-hour, billed 0.01.
C9_LeftEndpointIntegration ==
    (calc.pc = "done" /\ Len(calc.usage) >= 2) =>
        LET n == Len(calc.usage)
        IN  /\ \A i \in 1..n : /\ calc.usage[i] \in usage_samples
                               /\ calc.usage[i].ts >= calc.start
                               /\ calc.usage[i].ts < calc.end
            /\ \A i \in 1..(n - 1) : calc.usage[i].ts <= calc.usage[i + 1].ts
            /\ calc.hours.vcpu =
                 Rat(LeftSum(calc.usage, "cpu_pct", n - 1) * calc.server.cores,
                     100 * 3600)
            /\ calc.hours.ram = Rat(LeftSum(calc.usage, "ram_mib", n - 1), 1024 * 3600)
            /\ calc.hours.disk =
                 Rat(calc.server.disk_gib * (calc.usage[n].ts - calc.usage[1].ts), 3600)
            /\ (/\ n = 2
                /\ calc.server.cores = 2
                /\ calc.usage[1].cpu_pct = 50
                /\ calc.usage[2].ts - calc.usage[1].ts = 3600) =>
                   /\ calc.hours.vcpu = Rat(1, 1)
                   /\ calc.items[1].kind = "vCPU"
                   /\ calc.items[1].quantity = Rat(1, 1)
                   /\ calc.items[1].amount = Rat(1, 100)

\* Three samples at three times with three cpu readings have been integrated.
C9_Witness ==
    /\ calc.pc = "done"
    /\ Len(calc.usage) = 3
    /\ calc.usage[1].ts < calc.usage[2].ts
    /\ calc.usage[2].ts < calc.usage[3].ts
    /\ calc.usage[1].cpu_pct # calc.usage[2].cpu_pct
    /\ calc.usage[2].cpu_pct # calc.usage[3].cpu_pct
    /\ RatPos(calc.hours.vcpu)

\* ------------------------------------------------ properties: usage query
\* The samples a usage query is about, and the bucket of one of them.
InRange == { x \in usage_samples : /\ x.server_id = query.server_id
                                   /\ query.from <= x.ts
                                   /\ x.ts <= query.to }
BucketOf(x) ==
    LET size == CASE query.interval = "5m" -> 5 * 60
                  [] query.interval = "1h" -> 60 * 60
                  [] query.interval = "1d" -> 24 * 60 * 60
    IN  (x.ts \div size) * size
SamplesIn(row) == { x \in InRange : IsoFormat(BucketOf(x)) = row.ts }
CoarseAnswer ==
    /\ query.pc = "done"
    /\ query.code = 200
    /\ query.interval \in {"5m", "1h", "1d"}
OneRowPerBucket ==
    /\ Len(query.data) = Cardinality({ BucketOf(x) : x \in InRange })
    /\ \A x \in InRange : \E i \in DOMAIN query.data :
          query.data[i].ts = IsoFormat(BucketOf(x))
    /\ \A i \in DOMAIN query.data :
          /\ SamplesIn(query.data[i]) # {}
          /\ query.data[i].sample_count = Cardinality(SamplesIn(query.data[i]))
\* value is the mean of field over the samples S
IsMean(value, S, field) ==
    RatMul(value, Rat(Cardinality(S), 1)) = Rat(SumField(S, field), 1)
\* value has at most two decimals and no number of two decimals is nearer to
\* the mean of field over the samples S
IsMeanToTwoDecimals(value, S, field) ==
    /\ 100 % value.d = 0
    /\ LET hundredths == value.n * (100 \div value.d)
           off == hundredths * Cardinality(S) - 100 * SumField(S, field)
       IN  2 * Abs(off) <= Cardinality(S)

OthersServer(u, sid) == sid \in DOMAIN servers /\ servers[sid].user_id # u
OthersInvoice(u, iid) == iid \in DOMAIN invoices /\ invoices[iid].user_id # u
OwnServers(u) == { servers[x] : x \in { y \in DOMAIN servers : ~OthersServer(u, y) } }
OwnInvoices(u) == { invoices[x] : x \in { y \in DOMAIN invoices : ~OthersInvoice(u, y) } }

\* The documents, the events published, the containers and the requests
\* under way are what they were.
NothingTouched ==
    UNCHANGED <<servers, usage_samples, invoices, transactions, events,
                containers, nextCtr, nextId, nextInv, nextTxn, now, upd, reqs>>

\* C11: get, start, stop, update, delete and the usage query of a server of
\* another user, and get and pay of an invoice of another user, answer 404
\* and leave the documents, the events and the containers as they were; a
\* list returns exactly the caller's documents, and the invoice a generate
\* request builds is made of the caller's servers and their samples alone.
C11_OnlyTheOwnerReachesADocument ==
    [][/\ \A u \in Users, sid \in ServerIds :
            OthersServer(u, sid) =>
              /\ ( \/ GetServer(u, sid) \/ StartServer(u, sid) \/ StopServer(u, sid)
                   \/ DeleteServer(u, sid)
                   \/ \E data \in UpdateInputs : UpdateRead(u, sid, data) )
                 => (resp'.code = 404 /\ resp'.id = sid /\ NothingTouched)
              /\ get_server_usage(u, sid, 0, 3600, "1h")
                 => (query'.code = 404 /\ query'.data = <<>> /\ NothingTouched)
       /\ \A u \in Users, iid \in InvoiceIds :
            OthersInvoice(u, iid) =>
              ( (GetInvoice(u, iid) \/ \E m \in Methods : PayRead(u, iid, m))
                => (resp'.code = 404 /\ resp'.id = iid /\ NothingTouched) )
       /\ \A u \in Users :
            /\ ListServers(u) => (resp'.data = OwnServers(u) /\ NothingTouched)
            /\ ListInvoices(u) => (resp'.data = OwnInvoices(u) /\ NothingTouched)
            /\ GenerateCheck(u, <<0, 7200>>) =>
                 \A r \in BagToSet(reqs') \ BagToSet(reqs) :
                    LET own == [sid \in { x \in DOMAIN servers : ~OthersServer(u, x) }
                                  |-> servers[sid]]
                        mine == { x \in usage_samples : x.server_id \in DOMAIN own }
                    IN  \E usage \in UsageLists(own, mine, 0, 7200) :
                          r.invoice = BuildInvoice(u, 0, 7200, own, usage, now)
      ]_vars

\* A request for a server of another user has just been answered 404.
C11_Witness ==
    /\ resp.code = 404
    /\ resp.op \in {"get", "start", "stop", "update", "delete"}
    /\ OthersServer(1, resp.id)
    /\ OthersServer(2, 1)
    /\ servers[resp.id].status = "running"

\* --- properties: validation
\* The body supplies a resource value that is zero or negative.
NotPositive(data) == \E p \in data : p[1] \in ResourceFields /\ LeqZero(p[2])

\* C12: a create whose body has a resource value that is zero or negative,
\* and an update whose body supplies one, is rejected (400, or 404 when the
\* caller has no such server) with no adapter call, and the server documents,
\* the containers, the events, the counters and the clock stay as they are.
C12_NonPositiveRejectedBeforeAnyEffect ==
    [][/\ \A u \in Users, d \in InvalidShapes :
            CreateServer(u, d) =>
              /\ resp' = Reject("create", 400, 0, "All resource values must be positive")
              /\ UNCHANGED <<servers, containers, events, nextId, nextCtr, now,
                             usage_samples, upd>>
       /\ \A u \in Users, sid \in ServerIds, data \in { x \in UpdateInputs \cup ShapeUpdates : NotPositive(x) } :
            UpdateRead(u, sid, data) =>
              /\ resp'.code = IF sid \in DOMAIN servers /\ servers[sid].user_id = u
                              THEN 400 ELSE 404
              /\ resp'.calls = <<>>
              /\ upd' = Idle
              /\ UNCHANGED <<servers, containers, events, nextId, nextCtr, now,
                             usage_samples>>
      ]_vars

\* An update of a running server that supplied a value that is not positive
\* has just been rejected.
C12_Witness ==
    /\ resp = Reject("update", 400, resp.id, "must be positive")
    /\ resp.id \in DOMAIN servers
    /\ servers[resp.id].status = "running"

\* Python's v > 0: False when v is NaN
GtZero(v) == v # NaN /\ v > 0

\* C13 as stated: every server document has cpu_limit, cores, ram_gib and
\* disk_gib above zero, whatever create, update, start, stop and delete
\* requests came before.
C13_ResourcesStayPositive ==
    \A sid \in DOMAIN servers :
        /\ GtZero(servers[sid].cpu_limit)
        /\ GtZero(servers[sid].cores)
        /\ GtZero(servers[sid].ram_gib)
        /\ GtZero(servers[sid].disk_gib)

\* --- properties: mock mode
SamplerKeys == {"cpu_percent", "memory_mb", "disk_gb"}

\* C14 as stated: without a runtime connection the handle of every server is
\* the synthetic one of its id, and every adapter call on it succeeds: start,
\* stop and delete answer True, the stats carry what the sampler reads, and
\* the liveness probe of a server with status running answers True.
C14_MockAdapterCallsSucceed ==
    ~available =>
      \A sid \in DOMAIN servers :
        LET h == servers[sid].container_id
        IN  /\ h = MockHandle(sid)
            /\ \A fault \in BOOLEAN :
                 /\ StartContainer(containers, h, fault).ok
                 /\ StopContainer(containers, h, fault).ok
                 /\ DeleteContainer(containers, h, fault).ok
                 /\ servers[sid].status = "running" =>
                      IsContainerRunning(containers, h, fault)
                 /\ \A reading \in StatsInputs :
                      SamplerKeys \subseteq GetContainerStats(containers, h, fault, reading).keys

\* C15 as stated: without a runtime connection the sampler never removes a
\* server it probes, and when a tick ends a sample of that tick is stored for
\* every server the tick read as running.
C15_MockServerSampledEveryTick ==
    [][~available =>
         /\ \A sid \in DOMAIN servers : SamplerProbe(sid) => sid \in DOMAIN servers'
         /\ SamplerSleep =>
              \A sid \in DOMAIN tick.tasks :
                 /\ tick.tasks[sid].sample # NoSample
                 /\ tick.tasks[sid].sample \in usage_samples
      ]_vars

\* --- properties: the sampling loop
\* C16: a task that fails leaves the other tasks of its tick as they are,
\* and they come to their end; every tick comes to its sleep, from where the
\* next iteration starts, again and again: the loop is never left, whatever
\* fails in a task or in the loop body.
C16_LoopSurvivesFailures ==
    /\ [][\A sid \in ServerIds :
            SamplerTaskFails(sid) =>
              /\ tick'.pc = "run"
              /\ \A o \in DOMAIN tick.tasks \ {sid} : tick'.tasks[o] = tick.tasks[o]]_vars
    /\ [](tick.pc \in {"sleep", "run"})
    /\ \A sid \in ServerIds :
          (tick.pc = "run" /\ sid \in DOMAIN tick.tasks)
             ~> \/ tick.pc = "sleep"
                \/ sid \in DOMAIN tick.tasks /\ tick.tasks[sid].pc = "done"
    /\ (tick.pc = "run") ~> (tick.pc = "sleep")
    /\ []<>(tick.pc = "sleep" /\ ENABLED SamplerRead)

\* In one tick the task of one server failed before it wrote anything, and
\* the task of another server stored its sample.
C16_Witness ==
    /\ tick.pc = "run"
    /\ \E sid \in DOMAIN tick.tasks, o \in DOMAIN tick.tasks :
          /\ sid # o
          /\ tick.tasks[sid].pc = "done"
          /\ tick.tasks[sid].is_running = "unset"
          /\ tick.tasks[o].pc = "done"
          /\ tick.tasks[o].sample \in usage_samples

\* --- properties: delete, stop, start
\* The last event published
LastEvent == IF events = <<>> THEN Event("none", 0) ELSE events[Len(events)]
\* The runtime has no container for the server's handle: the adapter's call
\* cannot succeed.
Gone(sid) == available /\ ~Present(containers, servers[sid].container_id)

\* C17: a delete request of the owner removes the server document and answers
\* 200 whether the adapter deleted the container or not, and no server
\* document ever has status deleted.
C17_DeleteRemovesTheRecord ==
    /\ [][\A u \in Users, sid \in ServerIds :
            (DeleteServer(u, sid) /\ sid \in DOMAIN servers /\ servers[sid].user_id = u) =>
              /\ sid \notin DOMAIN servers'
              /\ resp'.code = 200
              /\ \A o \in DOMAIN servers \ {sid} :
                    o \in DOMAIN servers' /\ servers'[o] = servers[o]]_vars
    /\ [](\A sid \in DOMAIN servers : servers[sid].status # "deleted")

\* A delete has just removed a server whose container the adapter failed to
\* delete: the container is still there.
C17_Witness ==
    /\ resp.op = "delete"
    /\ resp.code = 200
    /\ resp.calls = <<"delete">>
    /\ resp.id \notin DOMAIN servers
    /\ \E n \in DOMAIN containers : containers[n].name = resp.id

\* C18: a stop request of the owner is rejected (400, nothing changed, no
\* adapter call) when the server has status stopped or no handle; otherwise,
\* when the adapter stops the container, the status becomes stopped,
\* updated_at is set and server.stopped is published, and when the adapter
\* fails (as it must when the container is gone) the answer is 500 and the
\* server documents and the events stay as they are.
C18_StopOutcomes ==
    [][\A u \in Users, sid \in ServerIds :
         (StopServer(u, sid) /\ sid \in DOMAIN servers /\ servers[sid].user_id = u) =>
           IF servers[sid].status = "stopped" \/ servers[sid].container_id = NoHandle
           THEN /\ resp'.code = 400
                /\ resp'.calls = <<>>
                /\ UNCHANGED <<servers, containers, events, now>>
           ELSE /\ resp'.calls = <<"stop">>
                /\ resp'.code \in {200, 500}
                /\ Gone(sid) => resp'.code = 500
                /\ resp'.code = 200 =>
                     /\ servers' = [servers EXCEPT ![sid].status = "stopped",
                                                   ![sid].updated_at = now']
                     /\ now' = now + 1
                     /\ events' = Append(events, Event("server.stopped", sid))
                /\ resp'.code = 500 => UNCHANGED <<servers, events, now>>]_vars

\* A stop has just succeeded: the server is stopped and the event is out.
C18_Witness ==
    /\ resp.op = "stop"
    /\ resp.code = 200
    /\ resp.id \in DOMAIN servers
    /\ servers[resp.id].status = "stopped"
    /\ LastEvent = Event("server.stopped", resp.id)

\* C19: when the adapter fails to start the container (as it must when the
\* container is gone), the start request is answered 500, the server document
\* keeps its status, updated_at and handle, and no event is published.
C19_FailedStartChangesNothing ==
    [][\A u \in Users, sid \in ServerIds :
         (/\ StartServer(u, sid)
          /\ sid \in DOMAIN servers /\ servers[sid].user_id = u
          /\ servers[sid].status # "running"
          /\ servers[sid].container_id # NoHandle) =>
           /\ resp'.calls = <<"start">>
           /\ Gone(sid) => resp'.code = 500
           /\ resp'.code # 200 =>
                /\ resp'.code = 500
                /\ UNCHANGED <<servers, events, now>>]_vars

\* A start has just failed on a server that is not running.
C19_Witness ==
    /\ resp.op = "start"
    /\ resp.code = 500
    /\ resp.calls = <<"start">>
    /\ resp.id \in DOMAIN servers
    /\ servers[resp.id].status # "running"
    /\ LastEvent # Event("server.started", resp.id)

\* --- properties: replace-in-place
\* One of stop, delete, create and start of the replacement failed, by
\* answering False or by raising.
SubStepFailed(fStop, fDelete, fCreate, fStart) ==
    LET h == upd.server.container_id
        s1 == StopContainer(containers, h, fStop)
        s2 == DeleteContainer(s1.ctrs, h, fDelete)
        s3 == CreateContainer(s2.ctrs, nextCtr, upd.server, upd.server.id, fCreate)
        s4 == StartContainer(s3.ctrs, s3.handle, fStart)
    IN  ~s1.ok \/ ~s2.ok \/ s3.raised \/ ~s4.ok

\* The replacement step taken is the one in which the runtime failed the
\* calls so.
ReplacedWith(fStop, fDelete, fCreate, fStart) ==
    LET r == UpdateContainerResources(containers, nextCtr, upd.server.container_id,
                                      upd.server, fStop, fDelete, fCreate, fStart)
    IN  /\ UpdateReplace
        /\ containers' = r.ctrs
        /\ nextCtr' = r.next
        /\ r.ok <=> upd' # Idle

\* C20 as stated: when stop, delete, create or start of a replacement fails,
\* the update is answered with an error and does not go on to write the new
\* shape to the server document.
C20_FailedReplaceIsAnError ==
    [][\A fStop, fDelete, fCreate, fStart \in BOOLEAN :
         (/\ upd # Idle
          /\ upd.pc = "replace"
          /\ SubStepFailed(fStop, fDelete, fCreate, fStart)
          /\ ReplacedWith(fStop, fDelete, fCreate, fStart)) =>
           /\ resp'.op = "update"
           /\ resp'.code = 500
           /\ upd' = Idle
           /\ UNCHANGED servers]_vars

\* --- properties: update of a server that is not running
\* C21 as stated: the write of an update that read its server with a status
\* other than running follows no adapter call and leaves the status, the
\* handle, the owner, the id and created_at of that server, every other
\* server, the containers, the samples and the events as they were.
C21_IdleUpdateWritesOnlyTheShape ==
    [][(UpdateWrite /\ upd.server.status # "running" /\ upd.sid \in DOMAIN servers) =>
         /\ resp'.calls = <<>>
         /\ servers'[upd.sid].status = servers[upd.sid].status
         /\ servers'[upd.sid].container_id = servers[upd.sid].container_id
         /\ servers'[upd.sid].user_id = servers[upd.sid].user_id
         /\ servers'[upd.sid].id = servers[upd.sid].id
         /\ servers'[upd.sid].created_at = servers[upd.sid].created_at
         /\ \A o \in DOMAIN servers \ {upd.sid} :
               o \in DOMAIN servers' /\ servers'[o] = servers[o]
         /\ UNCHANGED <<containers, usage_samples, events>>]_vars

\* --- properties: invoices
\* C22: an invoice document, once inserted, stays in the store with its
\* owner, period, line items (quantities, rates, amounts), subtotal, total and
\* created_at; only its status changes, from draft to paid, and only in the
\* second write of a payment of that invoice.
C22_InvoiceImmutableButStatus ==
    [][\A iid \in DOMAIN invoices :
         /\ iid \in DOMAIN invoices'
         /\ [invoices'[iid] EXCEPT !.status = invoices[iid].status] = invoices[iid]
         /\ invoices'[iid].status # invoices[iid].status =>
              /\ invoices[iid].status = "draft"
              /\ invoices'[iid].status = "paid"
              /\ \E r \in InFlight :
                    r.op = "pay" /\ r.invoice_id = iid /\ PayMark(r)]_vars

\* An invoice with line items has been paid and another invoice has been
\* generated next to it.
C22_Witness ==
    /\ Cardinality(DOMAIN invoices) = 2
    /\ transactions # {}
    /\ \E i \in DOMAIN invoices :
          invoices[i].status = "paid" /\ invoices[i].line_items # <<>>
    /\ \E i, j \in DOMAIN invoices : invoices[i].total # invoices[j].total

\* --- properties: publishing
\* C23: a step of create, start, stop, the sampler's insert or generate in
\* which the broker did not take the event (the step is not one with the
\* event published) ends as the one with the event: the same answer 200, the
\* document inserted or updated, and no event added.
C23_PublishFailureIsNotRaised ==
    [][/\ \A u \in Owners, d \in ValidShapes :
            (CreateServerPub(u, d, FALSE) /\ ~CreateServerPub(u, d, TRUE)) =>
              /\ resp' = Resp("create", 200, nextId + 1, <<"create">>)
              /\ DOMAIN servers' = DOMAIN servers \cup {nextId + 1}
              /\ servers'[nextId + 1].status = "created"
              /\ servers'[nextId + 1].container_id # NoHandle
              /\ events' = events
       /\ \A u \in Owners, sid \in ServerIds :
            /\ (StartServerPub(u, sid, FALSE) /\ ~StartServerPub(u, sid, TRUE)) =>
                 /\ resp' = Resp("start", 200, sid, <<"start">>)
                 /\ servers' = [servers EXCEPT ![sid].status = "running",
                                               ![sid].updated_at = now']
                 /\ events' = events
            /\ (StopServerPub(u, sid, FALSE) /\ ~StopServerPub(u, sid, TRUE)) =>
                 /\ resp' = Resp("stop", 200, sid, <<"stop">>)
                 /\ servers' = [servers EXCEPT ![sid].status = "stopped",
                                               ![sid].updated_at = now']
                 /\ events' = events
       /\ \A sid \in ServerIds :
            (SamplerInsertPub(sid, FALSE) /\ ~SamplerInsertPub(sid, TRUE)) =>
              /\ usage_samples' = usage_samples \cup {tick.tasks[sid].sample}
              /\ tick'.tasks[sid].pc = "done"
              /\ events' = events
       /\ \A r \in InFlight :
            (GenerateInsertPub(r, FALSE) /\ ~GenerateInsertPub(r, TRUE)) =>
              /\ resp' = Resp("generate", 200, nextInv + 1, <<>>)
              /\ invoices' = Put(invoices, nextInv + 1, r.invoice)
              /\ events' = events
      ]_vars

\* A create has just answered 200 and the server is stored, but no
\* server.created event of it was published.
C23_Witness ==
    /\ resp.op = "create"
    /\ resp.code = 200
    /\ resp.id \in DOMAIN servers
    /\ \A i \in 1..Len(events) : events[i] # Event("server.created", resp.id)

\* --- properties: the handle
\* C24: every server document has a handle (so every running and every
\* stopped one has), and a create whose adapter call raises answers 500 and
\* inserts nothing.
C24_EveryServerHasAHandle ==
    /\ [](\A sid \in DOMAIN servers :
             /\ servers[sid].container_id # NoHandle
             /\ servers[sid].container_id.kind \in {"mock", "ctr"})
    /\ [][\A u \in Owners, d \in ShapeInputs :
            (CreateServer(u, d) /\ resp'.code = 500) =>
              /\ resp'.calls = <<"create">>
              /\ UNCHANGED <<servers, containers, events, nextId>>]_vars

\* A create has just failed in the adapter next to a stopped server, which
\* has its handle.
C24_Witness ==
    /\ resp = Resp("create", 500, 0, <<"create">>)
    /\ \E sid \in DOMAIN servers :
          servers[sid].status = "stopped" /\ servers[sid].container_id # NoHandle

\* --- properties: samples
\* C25 as stated: every usage sample in the store is a sample of a server
\* whose document is in the store.
C25_SamplesDoNotOutliveTheirServer ==
    \A x \in usage_samples : x.server_id \in DOMAIN servers

\* The servers a tick takes: status running and a handle
Sampled == { sid \in DOMAIN servers :
               servers[sid].status = "running" /\ servers[sid].container_id # NoHandle }

\* C26: a task whose probe found the container running either got stats, and
\* then holds one sample made of a reading of the runtime, or got none, and
\* then ends with nothing written; in both cases the server document is
\* unchanged.  The insert of a task stores exactly its sample and publishes
\* one usage.sampled event; a task takes each step once, and the next tick
\* takes every server with status running again.
C26_OneSampleOrNoneAfterTheProbe ==
    [][/\ \A sid \in ServerIds :
            (SamplerProbe(sid) /\ tick'.tasks[sid].is_running = "true") =>
              /\ UNCHANGED <<servers, usage_samples, events>>
              /\ \/ /\ tick'.tasks[sid].pc = "done"
                    /\ tick'.tasks[sid].sample = NoSample
                 \/ /\ tick'.tasks[sid].pc = "insert"
                    /\ \E reading \in StatsInputs :
                          tick'.tasks[sid].sample =
                             [server_id |-> sid, ts |-> now', cpu_pct |-> reading.cpu,
                              ram_mib |-> reading.mem, disk_gib |-> reading.disk]
       /\ \A sid \in ServerIds :
            SamplerInsert(sid) =>
              /\ tick.tasks[sid].sample \notin usage_samples
              /\ usage_samples' = usage_samples \cup {tick.tasks[sid].sample}
              /\ events' = Append(events, Event("usage.sampled", sid))
              /\ tick'.tasks[sid].pc = "done"
              /\ UNCHANGED servers
       /\ (SamplerRead /\ Sampled # {}) => DOMAIN tick'.tasks = Sampled
      ]_vars

\* The probe of a running server succeeded and its stats failed: the task is
\* done with no sample, and the server is still there, running and unsampled.
C26_Witness ==
    /\ tick.pc = "run"
    /\ \E sid \in DOMAIN tick.tasks :
          /\ tick.tasks[sid].pc = "done"
          /\ tick.tasks[sid].is_running = "true"
          /\ tick.tasks[sid].sample = NoSample
          /\ sid \in Sampled
          /\ \A x \in usage_samples : x.server_id # sid

\* The resource-hour totals of a server over a sorted list of its samples,
\* by kind of line item
Totals(usage, server) ==
    LET n == Len(usage)
    IN  IF n < 2 THEN [vCPU |-> Zero, RAM |-> Zero, Disk |-> Zero]
        ELSE [vCPU |-> Rat(LeftSum(usage, "cpu_pct", n - 1) * server.cores, 100 * 3600),
              RAM |-> Rat(LeftSum(usage, "ram_mib", n - 1), 1024 * 3600),
              Disk |-> Rat(server.disk_gib * (usage[n].ts - usage[1].ts), 3600)]
Kinds == {"vCPU", "RAM", "Disk"}
RateOf == [vCPU |-> VcpuRate, RAM |-> RamRate, Disk |-> DiskRate]

\* The invoices of the one server of the store, with the totals they were
\* made of: the samples and the server do not change after the start.
TotalsOf(inv) ==
    { Totals(usage, servers[1]) :
        usage \in SortedByTs(InPeriod(usage_samples, 1, inv.period_start, inv.period_end)) }

\* C27 as stated: the amount of a line item is its rounded quantity times its
\* rate, rounded to 4 decimals, the quantity being the total rounded to 4
\* decimals, and there is an item only for a total above zero.
C27_AmountIsOfTheRoundedQuantity ==
    \A iid \in DOMAIN invoices :
      \E t \in TotalsOf(invoices[iid]) :
        LET items == invoices[iid].line_items
        IN  /\ \A i \in DOMAIN items :
                 /\ items[i].kind \in Kinds
                 /\ RatPos(t[items[i].kind])
                 /\ items[i].quantity = Round4(t[items[i].kind])
                 /\ items[i].amount = Round4(RatMul(items[i].quantity, items[i].rate))

\* What generate_invoice does keep: the quantity of a line item is the
\* resource-hour total rounded to 4 decimals, its rate the rate of its kind,
\* and its amount the unrounded total times the rate, rounded to 4 decimals;
\* there is one item for each kind whose total is above zero and no other.
AmountIsOfTheUnroundedTotal ==
    \A iid \in DOMAIN invoices :
      \E t \in TotalsOf(invoices[iid]) :
        LET items == invoices[iid].line_items
        IN  /\ \A i \in DOMAIN items :
                 /\ items[i].kind \in Kinds
                 /\ RatPos(t[items[i].kind])
                 /\ items[i].quantity = Round4(t[items[i].kind])
                 /\ items[i].rate = RateOf[items[i].kind]
                 /\ items[i].amount = Round4(RatMul(t[items[i].kind], items[i].rate))
            /\ \A i, j \in DOMAIN items : items[i].kind = items[j].kind => i = j
            /\ \A kind \in Kinds :
                 RatPos(t[kind]) => \E i \in DOMAIN items : items[i].kind = kind

\* The sum of the amount fields of a sequence of line items
RECURSIVE SumOfAmounts(_)
SumOfAmounts(items) ==
    IF items = <<>> THEN Zero
    ELSE RatAdd(items[1].amount, SumOfAmounts(Tail(items)))

\* C28: every stored invoice has subtotal = total, and its subtotal is the
\* sum of the amounts of its line items.
C28_SubtotalIsTheSumOfTheAmounts ==
    \A iid \in DOMAIN invoices :
        /\ invoices[iid].subtotal = invoices[iid].total
        /\ invoices[iid].subtotal = SumOfAmounts(invoices[iid].line_items)

\* The part of C28 the code keeps: subtotal and total are the same figure.
SubtotalIsTotal ==
    \A iid \in DOMAIN invoices : invoices[iid].subtotal = invoices[iid].total

\* C29: the rows of a usage query at 5m, 1h or 1d come ordered by bucket
\* start ascending, whatever order the grouping stage gives its groups in.
C29_CoarseRowsAscending ==
    CoarseAnswer =>
        \A i, j \in DOMAIN query.data :
            i < j => query.data[i].ts.iso < query.data[j].ts.iso

\* The samples of the queried server in the half-open range [from, to)
HalfOpen == { x \in usage_samples : /\ x.server_id = query.server_id
                                    /\ query.from <= x.ts
                                    /\ x.ts < query.to }
RECURSIVE SumOfCounts(_)
SumOfCounts(rows) ==
    IF rows = <<>> THEN 0 ELSE rows[1].sample_count + SumOfCounts(Tail(rows))

\* C30: a usage query answers from the samples with from <= ts < to, at
\* every interval: at 1m its rows are these samples, and at 5m, 1h and 1d
\* its rows count these samples and no other; a sample with ts = to is left
\* out.
C30_RangeIsHalfOpen ==
    (query.pc = "done" /\ query.code = 200) =>
        IF query.interval = "1m"
        THEN { query.data[i] : i \in DOMAIN query.data } = { RawRow(x) : x \in HalfOpen }
        ELSE SumOfCounts(query.data) = Cardinality(HalfOpen)

\* C31: a tick in which a runtime call does not return still completes: the
\* waiting task is given up after a bounded wait, the tasks of the other
\* servers end, and the loop goes to sleep and on to the next tick.
C31_TickCompletesDespiteAHungCall ==
    /\ \A sid \in ServerIds :
          (tick.pc = "run" /\ sid \in DOMAIN tick.tasks /\ tick.tasks[sid].pc = "waiting")
             ~> (tick.pc = "sleep")
    /\ \A sid \in ServerIds :
          (tick.pc = "run" /\ sid \in DOMAIN tick.tasks /\ tick.tasks[sid].pc = "probe")
             ~> \/ tick.pc = "sleep"
                \/ sid \in DOMAIN tick.tasks /\ tick.tasks[sid].pc = "done"

\* The lists a sorted list of samples turns into when the readings of its
\* last sample are replaced
LastReplaced(usage) ==
    { [usage EXCEPT ![Len(usage)].cpu_pct = r[1], ![Len(usage)].ram_mib = r[2]] :
        r \in InvoiceReadings \cup {<<0, 0>>} }

\* C32: an invoice made over a server with no sample or one sample in
\* [start, end) has no line item and subtotal and total 0; over n >= 2
\* samples its quantities are the totals of the first n - 1 readings, the
\* same whatever the readings of the last sample are; and a generate that
\* reaches its insert stores the invoice, with status draft, also when it has
\* no line item.
C32_LoneAndLastSamplesAddNothing ==
    /\ [](\A iid \in DOMAIN invoices :
            /\ invoices[iid].status = "draft"
            /\ \E usage \in SortedByTs(InPeriod(usage_samples, 1,
                                invoices[iid].period_start, invoices[iid].period_end)) :
                 IF Len(usage) <= 1
                 THEN /\ invoices[iid].line_items = <<>>
                      /\ invoices[iid].subtotal = Zero
                      /\ invoices[iid].total = Zero
                 ELSE \A alt \in LastReplaced(usage), i \in DOMAIN invoices[iid].line_items :
                        LET item == invoices[iid].line_items[i]
                        IN  /\ item.kind \in Kinds
                            /\ item.quantity = Round4(Totals(alt, servers[1])[item.kind]))
    /\ [][\A r \in InFlight :
            GenerateInsert(r) =>
              /\ DOMAIN invoices' = DOMAIN invoices \cup {nextInv'}
              /\ invoices'[nextInv'] = r.invoice
              /\ resp'.code = 200]_vars

\* An invoice over a period with one sample of the server is stored, with no
\* line item, total 0 and status draft.
C32_Witness ==
    \E iid \in DOMAIN invoices :
      /\ Cardinality(InPeriod(usage_samples, 1, invoices[iid].period_start,
                              invoices[iid].period_end)) = 1
      /\ invoices[iid].line_items = <<>>
      /\ invoices[iid].total = Zero
      /\ invoices[iid].status = "draft"

\* C33: a generate request with period_start >= period_end, or of a user who
\* owns no server, is answered with an error, stores no invoice, starts no
\* insert and publishes no event; so every stored invoice has
\* period_start < period_end.
C33_BadPeriodOrNoServersRejected ==
    /\ [][\A u \in Users, period \in Periods :
            (/\ GenerateCheck(u, period)
             /\ \/ period[1] >= period[2]
                \/ \A sid \in DOMAIN servers : servers[sid].user_id # u) =>
               /\ resp'.op = "generate"
               /\ resp'.code \in {400, 500}
               /\ UNCHANGED <<invoices, nextInv, events, reqs>>]_vars
    /\ [](\A iid \in DOMAIN invoices :
            /\ invoices[iid].period_start < invoices[iid].period_end
            /\ \E sid \in DOMAIN servers : servers[sid].user_id = invoices[iid].user_id)

\* A user who owns no server has just been refused, next to a stored invoice
\* of the user who owns one.
C33_Witness ==
    /\ resp.op = "generate"
    /\ resp.code = 500
    /\ invoices # <<>>

\* C34: in every state an invoice with status paid has a transaction with
\* its invoice_id and its total as amount: the transaction is written before
\* the status is set, and the step that sets the status finds it there.
C34_PaidInvoiceHasItsTransaction ==
    /\ [](\A iid \in DOMAIN invoices :
            invoices[iid].status = "paid" =>
              \E t \in transactions : /\ t.invoice_id = iid
                                      /\ t.amount = invoices[iid].total)
    /\ [][\A r \in InFlight :
            (PayMark(r) /\ invoices' # invoices) =>
              \E t \in transactions : /\ t.invoice_id = r.invoice_id
                                      /\ t.amount = invoices'[r.invoice_id].total]_vars

\* An invoice with line items has been paid and the payment answered 200.
C34_Witness ==
    /\ resp.op = "pay"
    /\ resp.code = 200
    /\ \E iid \in DOMAIN invoices :
          /\ invoices[iid].status = "paid"
          /\ invoices[iid].line_items # <<>>
          /\ \E t \in transactions : t.invoice_id = iid

\* --- properties: interleavings
\* C35: no step of an update changes the stored status of a server: after
\* the write of an update the status is the one the store held before it,
\* also when a start or a stop wrote it after the update had read the
\* document.
C35_UpdateKeepsTheStoredStatus ==
    [][(\/ UpdateWrite
        \/ UpdateReplace
        \/ \E u \in Users, sid \in ServerIds, data \in UpdateInputs :
              UpdateRead(u, sid, data)) =>
         \A sid \in DOMAIN servers :
            sid \in DOMAIN servers' /\ servers'[sid].status = servers[sid].status]_vars

\* C36: the sampler deletes a server document only while its stored status
\* is running: a server stopped after the tick read it is not deleted when
\* the probe of its task finds the container not running.
C36_SamplerRemovesOnlyRunningServers ==
    [][\A sid \in ServerIds :
          (SamplerProbe(sid) /\ sid \in DOMAIN servers /\ sid \notin DOMAIN servers') =>
             servers[sid].status = "running"]_vars

\* The container of server sid has been replaced in place: the runtime runs
\* a container of its name that the replace created, and the container its
\* document names is gone.
Replaced(sid) ==
    /\ sid \in DOMAIN servers
    /\ ~Present(containers, servers[sid].container_id)
    /\ \E n \in DOMAIN containers :
          /\ containers[n].name = sid
          /\ containers[n].state = "running"

\* C37: a running server whose container an update has replaced is not
\* retired by the sampler: the probe of a tick, during the update or after
\* it, leaves its document in the store.
C37_ReplacedServerIsNotRetired ==
    [][\A sid \in ServerIds :
          (SamplerProbe(sid) /\ Replaced(sid)) => sid \in DOMAIN servers']_vars

\* C38: an invoice with status paid is in the store with status paid in
\* every later state, whatever requests run and however they interleave, and
\* an invoice never has a status other than draft and paid.
C38_PaidStaysPaid ==
    /\ [][\A iid \in DOMAIN invoices :
            invoices[iid].status = "paid" =>
               /\ iid \in DOMAIN invoices'
               /\ invoices'[iid].status = "paid"]_vars
    /\ [](\A iid \in DOMAIN invoices : invoices[iid].status \in {"draft", "paid"})

\* An invoice was paid, and after that another invoice of the same user was
\* generated, which is a draft.
C38_Witness ==
    /\ resp.op = "generate"
    /\ resp.code = 200
    /\ \E iid \in DOMAIN invoices, other \in DOMAIN invoices :
          /\ invoices[iid].status = "paid"
          /\ invoices[other].status = "draft"
          /\ resp.id = other

\* The change an event announces is in the store after the step that
\* published it, written by that step.
Announced(e) ==
    CASE e.subject = "server.created" ->
            e.id \notin DOMAIN servers /\ e.id \in DOMAIN servers'
      [] e.subject = "server.started" ->
            /\ e.id \in DOMAIN servers /\ e.id \in DOMAIN servers'
            /\ servers[e.id].status # "running"
            /\ servers'[e.id].status = "running"
      [] e.subject = "server.stopped" ->
            /\ e.id \in DOMAIN servers /\ e.id \in DOMAIN servers'
            /\ servers'[e.id].status = "stopped"
            /\ servers'[e.id].updated_at # servers[e.id].updated_at
      [] e.subject = "usage.sampled" ->
            \E x \in usage_samples' : x.server_id = e.id /\ x = tick.tasks[e.id].sample
      [] e.subject = "invoice.generated" ->
            e.id \notin DOMAIN invoices /\ e.id \in DOMAIN invoices'
      [] OTHER -> FALSE

====
